---- MODULE Spec2Model ----
(***************************************************************************)
(* Kagami ISO builder: the build pipeline (Builder.Build and its phases),  *)
(* the chroot mount table, workspace cleanup (cleanup, RemoveWorkspace)    *)
(* and the caller (main, ShowBuild, offerCleanup).                         *)
(*                                                                         *)
(* One kagami process is one "run".  The workspace on disk (directories,   *)
(* chroot content, mount table) survives the process; a later process may  *)
(* be started on the same workspace (Rerun).                               *)
(***************************************************************************)
EXTENDS Integers, Sequences, FiniteSets, TLC

\* ------------------------------------------------------------------ bounds
MaxRuns == 2          \* kagami processes started one after another
MaxDepth == 2         \* mounts stacked on one mount point
MaxLines == 3         \* lines of the package manifest
MaxCalls == 2         \* calls of cleanup one after another

\* -------------------------------------------------------- program constants
NumSteps == 14        \* len(steps) in Builder.Build

\* --------------------------------------------------------------- data types
Nil == ""             \* the nil error

\* steps of Builder.Build: label and phase function, in list order.
\* Go indexes the list from 0; Steps[i + 1] is the element with Go index i.
Steps ==
  << [name |-> "Checking prerequisites",         fn |-> "checkPrerequisites"],
     [name |-> "Creating directories",           fn |-> "createDirectories"],
     [name |-> "Bootstrapping base system",      fn |-> "bootstrapSystem"],
     [name |-> "Mounting filesystems",           fn |-> "mountFilesystems"],
     [name |-> "Configuring system",             fn |-> "configureSystem"],
     [name |-> "Blocking snapd permanently",     fn |-> "blockSnapd"],
     [name |-> "Installing packages",            fn |-> "installPackages"],
     [name |-> "Installing desktop environment", fn |-> "installDesktop"],
     [name |-> "Configuring Flatpak",            fn |-> "setupFlatpak"],
     [name |-> "Configuring bootloader",         fn |-> "configureBootloader"],
     [name |-> "Cleaning up chroot",             fn |-> "cleanupChroot"],
     [name |-> "Creating filesystem image",      fn |-> "createFilesystem"],
     [name |-> "Creating ISO",                   fn |-> "createISO"],
     [name |-> "Cleaning up",                    fn |-> "cleanup"] >>

StepIdx == 0 .. (NumSteps - 1)

StepName(i) == Steps[i + 1].name
StepFn(i) == Steps[i + 1].fn

\* mount points under the chroot directory
Dev == "chroot/dev"
DevPts == "chroot/dev/pts"
Proc == "chroot/proc"
Sys == "chroot/sys"
Run == "chroot/run"
Targets == {DevPts, Dev, Proc, Sys, Run}

\* the bind mounts of mountFilesystems, in list order
BindMounts == << Dev, Run >>
\* the mounts configureSystem makes inside the chroot, in script order
ChrootMounts == << Proc, Sys, DevPts >>
\* a list that begins with the outer mount point
CleanupMountsOuterFirst == << Dev, DevPts, Proc, Sys, Run >>

\* the list cleanup walks
CleanupMounts == << DevPts, Dev, Proc, Sys, Run >>
\* len(scripts) in cleanupChroot, and the place of "rm -f /sbin/initctl"
NumCleanScripts == 8
CleanRmInitctl == 2
\* the mount points cleanupChroot unmounts from inside the chroot
ChrootUmounts == << Proc, Sys, DevPts >>

WorkspaceDirs == {"work", "chroot", "image"}

\* what the operator asks for: distro and release of the configuration file or
\* the --release flag (explicit), and the other fields Validate looks at.
\* With a configuration file (file), blockSnapd and blockSnapdForever are its
\* system.block_snapd and security.block_snapd_forever; without one,
\* blockSnapd is the --block-snapd flag and NewDefaultConfig sets the rest.
Requests ==
  { [file |-> TRUE, blockSnapdForever |-> FALSE,
     distro |-> "ubuntu", asked |-> "lts",      explicit |-> TRUE,  flatpak |-> TRUE,  blockSnapd |-> FALSE, additional |-> TRUE,
     arch |-> "amd64", desktop |-> "gnome", remove |-> TRUE, installer |-> "calamares"],
    [file |-> FALSE, blockSnapdForever |-> TRUE,
     distro |-> "ubuntu", asked |-> "devel",    explicit |-> TRUE,  flatpak |-> FALSE, blockSnapd |-> FALSE, additional |-> TRUE,
     arch |-> "amd64", desktop |-> "none", remove |-> TRUE, installer |-> "ubiquity"],
    [file |-> TRUE, blockSnapdForever |-> TRUE,
     distro |-> "debian", asked |-> "stable",   explicit |-> FALSE, flatpak |-> FALSE, blockSnapd |-> TRUE, additional |-> FALSE,
     arch |-> "amd64", desktop |-> "none", remove |-> FALSE, installer |-> "calamares"],
    [file |-> TRUE, blockSnapdForever |-> TRUE,
     distro |-> "debian", asked |-> "unstable", explicit |-> TRUE,  flatpak |-> FALSE, blockSnapd |-> TRUE, additional |-> TRUE,
     arch |-> "amd64", desktop |-> "none", remove |-> TRUE, installer |-> "calamares"],
    [file |-> TRUE, blockSnapdForever |-> TRUE,
     distro |-> "debian", asked |-> "nosuch",   explicit |-> FALSE, flatpak |-> FALSE, blockSnapd |-> TRUE, additional |-> TRUE,
     arch |-> "amd64", desktop |-> "none", remove |-> TRUE, installer |-> "calamares"],
    [file |-> FALSE, blockSnapdForever |-> TRUE,
     distro |-> "ubuntu", asked |-> "nosuch",   explicit |-> TRUE,  flatpak |-> FALSE, blockSnapd |-> TRUE, additional |-> TRUE,
     arch |-> "amd64", desktop |-> "none", remove |-> TRUE, installer |-> "ubiquity"],
    [file |-> TRUE, blockSnapdForever |-> TRUE,
     distro |-> "arch",   asked |-> "noble",    explicit |-> FALSE, flatpak |-> FALSE, blockSnapd |-> TRUE, additional |-> TRUE,
     arch |-> "amd64", desktop |-> "none", remove |-> TRUE, installer |-> "ubiquity"],
    [file |-> TRUE, blockSnapdForever |-> TRUE,
     distro |-> "ubuntu", asked |-> "noble",    explicit |-> TRUE,  flatpak |-> FALSE, blockSnapd |-> TRUE, additional |-> TRUE,
     arch |-> "riscv64", desktop |-> "none", remove |-> TRUE, installer |-> "ubiquity"],
    [file |-> TRUE, blockSnapdForever |-> TRUE,
     distro |-> "ubuntu", asked |-> "noble",    explicit |-> TRUE,  flatpak |-> FALSE, blockSnapd |-> TRUE, additional |-> TRUE,
     arch |-> "amd64", desktop |-> "cinnamon", remove |-> TRUE, installer |-> "ubiquity"],
    [file |-> TRUE, blockSnapdForever |-> TRUE,
     distro |-> "ubuntu", asked |-> "noble",    explicit |-> TRUE,  flatpak |-> FALSE, blockSnapd |-> TRUE, additional |-> TRUE,
     arch |-> "amd64", desktop |-> "none", remove |-> TRUE, installer |-> "anaconda"],
    [file |-> FALSE, blockSnapdForever |-> TRUE,
     distro |-> "ubuntu", asked |-> "noble",    explicit |-> FALSE, flatpak |-> FALSE, blockSnapd |-> TRUE, additional |-> FALSE,
     arch |-> "amd64", desktop |-> "none", remove |-> TRUE, installer |-> "ubiquity"] }

\* releaseAliases of main: the release a --release value stands for
releaseAliases(r) ==
  CASE r = "lts" -> "noble"
    [] r = "rolling" -> "devel"
    [] r = "unstable" -> "devel"
    [] OTHER -> r

\* cfg.Release as main sets it: the mapped --release value when the flag was
\* given (or no configuration file was), otherwise the release of the file
SelectedRelease(q) == IF q.explicit THEN releaseAliases(q.asked) ELSE q.asked

\* configurations main hands to Validate and NewBuilder
Configs ==
  { [distro |-> q.distro, release |-> SelectedRelease(q), asked |-> q.asked,
     flatpak |-> q.flatpak, file |-> q.file, blockSnapd |-> q.blockSnapd,
     blockSnapdForever |-> q.blockSnapdForever,
     additional |-> q.additional, arch |-> q.arch, desktop |-> q.desktop,
     remove |-> q.remove,
     installer |-> q.installer] : q \in Requests }

\* Config.Validate, for a configuration whose distro main's loaders have
\* filled in: the error it returns, Nil when the configuration is accepted
Validate(c) ==
  IF c.distro # "ubuntu" /\ c.distro # "debian"
    THEN "distro must be either 'ubuntu' or 'debian'"
  ELSE IF c.distro = "ubuntu" /\ c.release \notin {"focal", "jammy", "noble", "resolute", "devel"}
    THEN "unsupported Ubuntu release"
  ELSE IF c.arch \notin {"amd64", "i386", "arm64"}
    THEN "unsupported architecture"
  ELSE IF c.desktop \notin {"gnome", "kde", "xfce", "lxde", "lxqt", "mate", "none"}
    THEN "unsupported desktop environment identifier"
  ELSE IF c.installer \notin {"ubiquity", "subiquity", "calamares"}
    THEN "unsupported installer type"
  ELSE Nil

\* the suite bootstrapSystem passes to debootstrap
BootstrapRelease(rel) == IF rel = "devel" THEN "noble" ELSE rel

\* the suites debootstrap has a script for, per distribution
BootstrapTargets(distro) ==
  IF distro = "ubuntu" THEN {"focal", "jammy", "noble", "resolute"}
  ELSE IF distro = "debian" THEN {"stable", "testing", "unstable", "bookworm", "trixie"}
  ELSE {}

\* how main runs the build: "direct" calls b.Build() itself (command line and
\* wizard with plain log), "tui" calls tui.ShowBuild(b)
Modes == {"direct", "tui"}

\* environments a process can run in
Hosts == [missing : {{}, {"xorriso"}}, euid : {0, 1000}]

\* values of --workdir: an absolute path, a relative path, a path through a
\* symbolic link (/srv/link -> /srv/kagami) and a path with a space in it
WorkDirs == {"/srv/kagami", "kagami-workspace", "/srv/link", "/srv/my builds"}

\* lines the operator can type at the cleanup prompt ("" is end of input)
\* Strings are sequences of characters; NL is "\n".
NL == "\n"

\* what standard input holds at the cleanup prompt (<< >> is end of input)
Inputs ==
  { << " ", "Y", " ", NL >>, << "n", NL >>, << NL >>, << >>, << "n", "o", NL >>,
    << "y", "e", "s", NL >> }

\* no line read yet
NoAnswer == << "none" >>

\* reader.ReadString('\n'): up to and including the first newline, or all
\* there is before the end of input (the error is dropped)
ReadString(stdin) ==
  IF \E i \in DOMAIN stdin : stdin[i] = NL
    THEN SubSeq(stdin, 1, CHOOSE i \in DOMAIN stdin :
                            stdin[i] = NL /\ \A j \in 1 .. (i - 1) : stdin[j] # NL)
    ELSE stdin

\* unicode.IsSpace for the characters used
IsSpace(c) == c \in {" ", NL, "\t"}

\* strings.TrimSpace
TrimSpace(str) ==
  LET kept == { i \in DOMAIN str : ~IsSpace(str[i]) }
  IN  IF kept = {} THEN << >>
      ELSE SubSeq(str, CHOOSE i \in kept : \A j \in kept : i <= j,
                       CHOOSE i \in kept : \A j \in kept : i >= j)

\* strings.ToLower for the characters used
ToLower(str) ==
  [ i \in DOMAIN str |-> CASE str[i] = "Y" -> "y" [] str[i] = "N" -> "n" [] OTHER -> str[i] ]

\* a comparison of the line as typed
NormalizeNot(input) == input

\* strings.ToLower(strings.TrimSpace(input))
Normalize(input) == ToLower(TrimSpace(input))

NoError == [label |-> "", cause |-> ""]

\* no function under study
NoArgs == [fn |-> ""]
NoResult == [fn |-> ""]

\* no command attempted yet
NoTrace == [ran |-> {}, failed |-> {}, logged |-> {}]

VARIABLES
  cfg,          \* the configuration record the runs are started with
  workDir,      \* b.WorkDir as main passed it to NewBuilder
  host,         \* the environment: tools missing from PATH, effective user id
  mountFaults,  \* the environment: mount and umount commands can fail
  release,      \* b.Config.Release
  debianAlias,  \* b.DebianAlias
  fetched,      \* codename the Release file query gave: "" when it failed, "-" when none was made
  dirs,         \* workspace directories that exist on disk
  etc,          \* chroot/etc: "absent", "partial" or "populated"
  initctl,      \* chroot/sbin/initctl exists (the init-system shim)
  mounts,       \* mount table: mount point -> number of mounts stacked on it
  iso,          \* where the ISO file is: "none", "workspace" or "safe"
  bstate,       \* Build: "idle", "starting", "running", "ok", "failed", "killed"
  step,         \* Go loop index i of Build
  calls,        \* per step: how often its function was called in this Build
  outcome,      \* per step: "none", "ok" or "fail"
  printed,      \* ordinal on the last progress line "[i/n] name..."
  lastFn,       \* the phase function called last
  phaseErr,     \* error returned by the phase function called last
  trace,        \* commands of the phase called last: attempted, failed, failures logged
  stateCaused,  \* the failing command failed because of what it found on disk
  buildErr,     \* the error Build returned
  pc,           \* main: "start", "wait", "prompt", "exited"
  mode,         \* how main started the build
  seenErr,      \* the error main got from Build or ShowBuild
  resumedOn,    \* what Build had come to when its caller in main went on
  success,      \* the argument of offerCleanup
  banner,       \* printBuildSuccess was called
  exitStatus,   \* -1 while the process runs
  runNo,        \* number of the process
  bootRuns,     \* bootstrapSystem calls on the present workspace, oldest first
  unattempted,  \* mount points mounted by this run and not given an unmount attempt since
  rmCount,      \* number of rm -rf WorkDir executed
  mountedAtRm,  \* mount points still mounted when rm -rf WorkDir last ran
  prevOK,       \* phase functions that succeeded in the earlier run on this workspace
  answer,       \* the line offerCleanup read from standard input
  args,         \* the arguments of the function under study, NoArgs in a run of main
  result        \* what the function under study returned, NoResult before it has run

fsVars == << dirs, etc, initctl, mounts, iso >>
buildVars == << bstate, step, calls, outcome, printed, lastFn, phaseErr, trace, stateCaused, buildErr >>
mainVars == << pc, mode, seenErr, resumedOn, success, banner, exitStatus, runNo >>
histVars == << bootRuns, unattempted, rmCount, mountedAtRm, prevOK >>
vars == << cfg, args, result, answer, workDir, host, mountFaults, release, debianAlias, fetched, dirs, etc, initctl, mounts, iso,
           bstate, step, calls, outcome, printed, lastFn, phaseErr, trace, stateCaused, buildErr,
           pc, mode, seenErr, resumedOn, success, banner, exitStatus, runNo,
           bootRuns, unattempted, rmCount, mountedAtRm, prevOK >>

\* ------------------------------------------------------------ mount table

\* filepath.Abs: a relative path is joined to the working directory of the
\* process; symbolic links are not resolved
Abs(path) == IF path = "kagami-workspace" THEN "/root/kagami-workspace" ELSE path

\* the path under which the kernel enters a mount point in its table: the
\* absolute path with every symbolic link resolved
RealPath(path) == IF path = "/srv/link" THEN "/srv/kagami" ELSE Abs(path)

\* the second field of a line of /proc/mounts: a space in the path is
\* written as the octal escape \040
MountsField(path) == IF path = "/srv/my builds" THEN "/srv/my\\040builds" ELSE path

\* the mount points that do have a mount on them
Mounted(m) == { t \in Targets : m[t] > 0 }

\* a check that reports every path as mounted
isMountedAlways(m, path) == TRUE

\* isMounted: some line of /proc/mounts has filepath.Abs(path) as its second
\* field.  The paths asked about are the targets under workDir and differ from
\* their mount-table entries only in how workDir is written.
isMounted(m, path) == m[path] > 0 /\ MountsField(RealPath(workDir)) = Abs(workDir)

\* mount(8) on a mount point: one more mount stacked on it
MountOn(m, t) == [m EXCEPT ![t] = @ + 1]

\* umount(8): the topmost mount of the mount point goes away
Umount(m, t) == [m EXCEPT ![t] = IF @ > 0 THEN @ - 1 ELSE 0]

\* umount -l: detaches the topmost mount together with what is mounted below it
UmountLazy(m, t) ==
  IF t = Dev /\ m[Dev] > 0
    THEN [m EXCEPT ![Dev] = @ - 1, ![DevPts] = 0]
    ELSE Umount(m, t)

\* whether a mount or umount command succeeds, as far as the environment decides
CmdOutcomes == IF mountFaults THEN BOOLEAN ELSE {TRUE}

\* ----------------------------------------------------------------- cleanup

\* What the retry loop of cleanup achieves for each target: TRUE when one of
\* its three "umount -l" attempts succeeds (the loop then breaks), FALSE
\* when all of them fail.  Targets that are not mounted get no attempt.
UmountOutcomes(m) ==
  { [ t \in Targets |-> IF t \in DOMAIN v THEN v[t] ELSE TRUE ] : v \in [Mounted(m) -> CmdOutcomes] }

\* one iteration of the loop of cleanup over its mounts list
cleanupTarget(m, u, t) ==
  IF isMounted(m, t) /\ u[t] THEN UmountLazy(m, t) ELSE m

RECURSIVE cleanupBefore(_, _, _)
\* the mount table when cleanup reaches element i of its list
cleanupBefore(m, u, i) ==
  IF i = 1 THEN m
  ELSE cleanupTarget(cleanupBefore(m, u, i - 1), u, CleanupMounts[i - 1])

\* the mount table when cleanup returns
cleanupResult(m, u) == cleanupBefore(m, u, Len(CleanupMounts) + 1)

\* the targets cleanup runs umount -l for: those mounted when their turn comes
cleanupAttempted(m, u) ==
  { CleanupMounts[i] : i \in { k \in 1 .. Len(CleanupMounts) :
                                 isMounted(cleanupBefore(m, u, k), CleanupMounts[k]) } }

\* ------------------------------------------------------------- Build loop

\* a loop that only logs the error of a step
LoopContinuesAfterError(err) == TRUE

\* "if err := step.fn(); err != nil { return ... }": the loop goes on to the
\* next step only after a nil error
LoopContinues(err) == err = Nil

\* the error built from a label other than the one of the step that ran
ErrorfLastLabel(name, err) == [label |-> Steps[NumSteps].name, cause |-> err]

\* fmt.Errorf("%s failed: %v", step.name, err)
Errorf(name, err) == [label |-> name, cause |-> err]

\* the progress line printing the Go index itself
OrdinalZeroBased(i) == i

\* the ordinal printed by fmt.Printf("[%d/%d] %s...\n", i+1, len(steps), step.name)
Ordinal(i) == i + 1

\* the loop of Build has come to the step whose function is fn
Reached(fn) == bstate = "running" /\ StepFn(step) = fn

\* The part of the loop body of Build around the call of step.fn(): fn is the
\* phase function that runs, err the error it returns, byState whether a
\* failure was forced by the state found on disk.
BuildStep(fn, err, byState) ==
  /\ Reached(fn)
  /\ printed' = Ordinal(step)
  /\ calls' = [calls EXCEPT ![step] = @ + 1]
  /\ outcome' = [outcome EXCEPT ![step] = IF err = Nil THEN "ok" ELSE "fail"]
  /\ lastFn' = fn
  /\ phaseErr' = err
  /\ stateCaused' = (err # Nil /\ byState)
  /\ IF LoopContinues(err)
       THEN /\ buildErr' = buildErr
            /\ IF step + 1 < NumSteps
                 THEN step' = step + 1 /\ bstate' = "running"
                 ELSE step' = step /\ bstate' = "ok"
       ELSE /\ buildErr' = Errorf(StepName(step), err)
            /\ step' = step
            /\ bstate' = "failed"

\* ------------------------------------------------------------------ phases

restOfPhase == << cfg, args, result, answer, workDir, host, mountFaults, release, debianAlias, fetched, pc, mode, seenErr, resumedOn, success, banner,
                  exitStatus, runNo, rmCount, mountedAtRm, prevOK >>

\* what rm -rf WorkDir leaves: mount points that are still mounted cannot be
\* removed, so their parent directories stay
dirsAfterRm(m) == IF Mounted(m) = {} THEN {} ELSE {"work", "chroot"}

\* RemoveWorkspace: cleanup(), then rm -rf WorkDir whatever cleanup achieved
RemoveWorkspace(u) ==
  /\ mounts' = cleanupResult(mounts, u)
  /\ unattempted' = unattempted \ cleanupAttempted(mounts, u)
  /\ rmCount' = rmCount + 1
  /\ mountedAtRm' = Mounted(mounts')
  /\ dirs' = dirsAfterRm(mounts')
  /\ etc' = "absent"
  /\ initctl' = FALSE
  /\ iso' = IF iso = "workspace" THEN "none" ELSE iso
  /\ bootRuns' = << >>

\* the last phase calling RemoveWorkspace where cleanup is meant
cleanupRemovingWorkspace ==
  /\ Reached("cleanup")
  /\ trace' = NoTrace
  /\ \E u \in UmountOutcomes(mounts) : RemoveWorkspace(u)
  /\ BuildStep("cleanup", Nil, FALSE)
  /\ UNCHANGED << cfg, args, result, answer, workDir, host, mountFaults, release, debianAlias, fetched, pc, mode, seenErr, resumedOn,
                  success, banner, exitStatus, runNo, prevOK >>

\* cleanup as the last phase of Build
cleanup ==
  /\ Reached("cleanup")
  /\ trace' = NoTrace
  /\ \E u \in UmountOutcomes(mounts) :
       /\ mounts' = cleanupResult(mounts, u)
       /\ unattempted' = unattempted \ cleanupAttempted(mounts, u)
  /\ BuildStep("cleanup", Nil, FALSE)
  /\ UNCHANGED << dirs, etc, initctl, iso, bootRuns, restOfPhase >>

\* the tools checkPrerequisites looks up on PATH
RequiredTools == {"debootstrap", "mksquashfs", "xorriso", "grub-mkstandalone", "gpg", "wget"}

\* the check with the test of the effective user id left out
checkPrerequisitesToolsOnly(missing, euid) ==
  IF missing \cap RequiredTools # {} THEN "required tool not found" ELSE Nil

\* the error checkPrerequisites returns: exec.LookPath of every required tool,
\* then os.Geteuid
checkPrerequisitesResult(missing, euid) ==
  IF missing \cap RequiredTools # {} THEN "required tool not found"
  ELSE IF euid # 0 THEN "this program must be run as root (use sudo)"
  ELSE Nil

checkPrerequisites ==
  /\ Reached("checkPrerequisites")
  /\ trace' = NoTrace
  /\ BuildStep("checkPrerequisites", checkPrerequisitesResult(host.missing, host.euid), FALSE)
  /\ UNCHANGED << fsVars, bootRuns, unattempted, restOfPhase >>

\* createDirectories: os.MkdirAll of the workspace, chroot and image directories
createDirectories ==
  /\ Reached("createDirectories")
  /\ trace' = NoTrace
  /\ \E ok \in BOOLEAN :
       /\ dirs' = IF ok THEN dirs \cup WorkspaceDirs ELSE dirs
       /\ BuildStep("createDirectories", IF ok THEN Nil ELSE "mkdir: permission denied", FALSE)
  /\ UNCHANGED << etc, initctl, mounts, iso, bootRuns, unattempted, restOfPhase >>

\* the check looking at a path that never exists
chrootExistsNever(e) == FALSE

\* os.Stat(filepath.Join(b.ChrootDir, "etc")) returns no error
chrootExists(e) == e # "absent"

\* what a debootstrap run can leave in chroot/etc, and the error it returns
DebootstrapOutcomes ==
  { [etc |-> "populated", err |-> Nil],
    [etc |-> "absent",    err |-> "debootstrap: exit status 1"],
    [etc |-> "partial",   err |-> "debootstrap: exit status 1"] }

\* bootstrapSystem: skip when chroot/etc exists, otherwise run debootstrap
bootstrapSystem ==
  /\ Reached("bootstrapSystem")
  /\ trace' = NoTrace
  /\ IF chrootExists(etc)
       THEN /\ etc' = etc
            /\ dirs' = dirs
            /\ bootRuns' = Append(bootRuns, [invoked |-> FALSE, ok |-> TRUE, etcBefore |-> etc])
            /\ BuildStep("bootstrapSystem", Nil, FALSE)
       ELSE \E o \in DebootstrapOutcomes :
              /\ o.err = Nil => BootstrapRelease(release) \in BootstrapTargets(cfg.distro)
              /\ etc' = o.etc
              /\ dirs' = IF o.etc = "absent" THEN dirs ELSE dirs \cup {"work", "chroot"}
              /\ bootRuns' = Append(bootRuns, [invoked |-> TRUE, ok |-> (o.err = Nil), etcBefore |-> etc])
              /\ BuildStep("bootstrapSystem", o.err, FALSE)
  /\ UNCHANGED << initctl, mounts, iso, unattempted, restOfPhase >>

RECURSIVE mountFrom(_, _, _)
\* the loop of mountFilesystems from element i of its mounts list on; o[i] tells
\* whether the mount command for element i succeeds
mountFrom(m, o, i) ==
  IF i > Len(BindMounts) THEN [mounts |-> m, err |-> Nil]
  ELSE LET target == BindMounts[i]
       IN  IF isMounted(m, target) THEN mountFrom(m, o, i + 1)
           ELSE IF ~o[i] THEN [mounts |-> m, err |-> "failed to mount"]
           ELSE mountFrom(MountOn(m, target), o, i + 1)

\* mountFilesystems: bind-mount /dev and /run unless already mounted
mountFilesystems ==
  /\ Reached("mountFilesystems")
  /\ trace' = NoTrace
  /\ \E o \in [1 .. Len(BindMounts) -> CmdOutcomes] :
       LET r == mountFrom(mounts, o, 1)
       IN  /\ mounts' = r.mounts
           /\ unattempted' = unattempted \cup { t \in Targets : r.mounts[t] > mounts[t] }
           /\ BuildStep("mountFilesystems", r.err, FALSE)
  /\ UNCHANGED << dirs, etc, initctl, iso, bootRuns, restOfPhase >>

\* number of chrootExec commands of configureSystem (scripts, then moreScripts)
NumConfigureCmds == 13
\* positions of the commands that matter for the state
CmdMountFirst == 3    \* "mount none -t proc /proc 2>/dev/null || true"
CmdDivert == 12       \* "dpkg-divert --local --rename --add /sbin/initctl"
CmdShim == 13         \* "ln -s /bin/true /sbin/initctl"
CmdSources == 2       \* b.generateSourcesList()
CmdUpdate == 8        \* "apt-get update"
CmdRepos == 14        \* the call of configureAdditionalRepos, no chrootExec command

\* an order with the package-index refresh ahead of the sources
ConfigureOrderRefreshFirst == << 1, 8, 2, 3, 4, 5, 6, 7, 14, 9, 10, 11, 12, 13 >>

\* the order configureSystem issues its commands in: scripts, the additional
\* repositories, moreScripts
ConfigureOrder == << 1, 2, 3, 4, 5, 6, 7, 14, 8, 9, 10, 11, 12, 13 >>

\* the commands configureSystem has issued when it returns: all of them, or
\* those up to the command whose error it returned
configureRan(stop) ==
  IF stop = 0 THEN { ConfigureOrder[j] : j \in DOMAIN ConfigureOrder }
  ELSE { ConfigureOrder[j] : j \in { i \in DOMAIN ConfigureOrder :
           \E e \in i .. Len(ConfigureOrder) : ConfigureOrder[e] = stop } }

\* command k of configureSystem ran to its end when the first command that
\* chrootExec reports as failed is f (0: none is reported failed by the environment)
CmdRan(f, k) == f = 0 \/ f > k

\* ln -s /bin/true /sbin/initctl succeeds only if /sbin/initctl does not exist
ShimLinkFails(shimPresent) == shimPresent

RECURSIVE chrootMountFrom(_, _, _, _)
\* the three "mount none -t ... || true" commands: mo[t] tells whether the mount
\* command for t mounts (it stacks a mount, or fails quietly)
chrootMountFrom(m, f, mo, i) ==
  IF i > Len(ChrootMounts) THEN m
  ELSE LET t == ChrootMounts[i]
           k == CmdMountFirst + i - 1
       IN  chrootMountFrom(IF CmdRan(f, k) /\ mo[t] /\ m[t] < MaxDepth THEN MountOn(m, t) ELSE m,
                           f, mo, i + 1)

\* What the three "mount ... || true" commands can do: each either mounts or is
\* refused, which "|| true" hides.  On a mount point that is mounted already
\* the kernel stacks the new mount or refuses it as busy.
ChrootMountOutcomes(m) ==
  { o \in [{ChrootMounts[i] : i \in 1 .. Len(ChrootMounts)} -> BOOLEAN] :
      \A t \in DOMAIN o : ~o[t] => (m[t] > 0 \/ FALSE \in CmdOutcomes) }

\* configureSystem: the scripts in order, stopping at the first failing command
configureSystem ==
  /\ Reached("configureSystem")
  /\ \E f \in 0 .. NumConfigureCmds, dv \in BOOLEAN, reposFail \in BOOLEAN,
        mo \in ChrootMountOutcomes(mounts) :
       LET m2 == chrootMountFrom(mounts, f, mo, 1)
           \* dpkg-divert may move an existing /sbin/initctl aside
           shimBefore == IF CmdRan(f, CmdDivert) /\ dv THEN FALSE ELSE initctl
           linkFails == f = 0 /\ ShimLinkFails(shimBefore)
           err == IF f # 0 \/ linkFails THEN "exit status 1" ELSE Nil
           ran == configureRan(f)
           warned == IF reposFail THEN {CmdRepos} ELSE {}
       IN  /\ reposFail => CmdRepos \in ran
           /\ trace' = [ran    |-> ran,
                        failed |-> warned \cup (IF f # 0 THEN {f}
                                                ELSE IF linkFails THEN {CmdShim} ELSE {}),
                        logged |-> warned]
           /\ mounts' = m2
           /\ unattempted' = unattempted \cup { t \in Targets : m2[t] > mounts[t] }
           /\ initctl' = IF f = 0 /\ ~linkFails THEN TRUE ELSE shimBefore
           /\ BuildStep("configureSystem", err, linkFails)
  /\ UNCHANGED << dirs, etc, iso, bootRuns, restOfPhase >>

\* number of chrootExec commands in the scripts list of blockSnapd
NumSnapdCmds == 22

\* the commands of blockSnapd that end in "|| true"
SnapdOrTrue == {1, 2, 18, 19, 20}

\* which chrootExec calls of blockSnapd return an error: none, one command that
\* does not end in "|| true", or all of them (chroot itself cannot start)
SnapdFailures ==
  {{}} \cup { {k} : k \in (1 .. NumSnapdCmds) \ SnapdOrTrue } \cup { 1 .. NumSnapdCmds }

\* a loop that returns at the first failing command
snapdLoopStops(err) == err = Nil

\* the loop of blockSnapd has no return in its error branch
snapdLoopContinues(err) == TRUE

RECURSIVE blockSnapdFrom(_, _, _)
\* the loop of blockSnapd from command i on: a failing command gets one
\* log.Printf warning
blockSnapdFrom(fails, i, t) ==
  IF i > NumSnapdCmds THEN t
  ELSE LET err == IF i \in fails THEN "exit status 1" ELSE Nil
           t2 == [ran    |-> t.ran \cup {i},
                  failed |-> IF err # Nil THEN t.failed \cup {i} ELSE t.failed,
                  logged |-> IF err # Nil THEN t.logged \cup {i} ELSE t.logged]
       IN  IF snapdLoopContinues(err) THEN blockSnapdFrom(fails, i + 1, t2) ELSE t2

\* blockSnapd: nothing unless blocking is configured; every command result is
\* only logged
\* The live directory under ImageDir, as each phase names it for a
\* configuration c.
\* createDirectories: filepath.Join(b.ImageDir, "casper")
createdLiveDir(c) == "casper"
\* configureBootloader: the directory vmlinuz and initrd are copied into
bootloaderLiveDir(c) == "casper"
\* generateGrubConfig: the directory of the linux and initrd lines, and the
\* boot= parameter of the entries
grubLiveDir(c) == "casper"
grubBootParam(c) == "boot=casper"
\* createFilesystem: b.liveDir(), the directory of the manifests, the
\* squashfs and filesystem.size
liveDir(c) == IF c.distro = "debian" THEN "live" ELSE "casper"

\* the guard of blockSnapd: one of the two flags of the configuration is set
snapdBlockingOn(c) == c.blockSnapdForever \/ c.blockSnapd

blockSnapd ==
  /\ Reached("blockSnapd")
  /\ IF snapdBlockingOn(cfg)
       THEN \E fails \in SnapdFailures : trace' = blockSnapdFrom(fails, 1, NoTrace)
       ELSE trace' = NoTrace
  /\ BuildStep("blockSnapd", Nil, FALSE)
  /\ UNCHANGED << fsVars, bootRuns, unattempted, restOfPhase >>

\* the chrootExec commands of installPackages, in the order of the code
PkgUpgrade == 1
PkgEssential == 2
PkgKernel == 3
PkgAdditional == 4

\* every step of installPackages returning its error
pkgFatalAlways(i) == TRUE

\* the steps of installPackages whose error is returned; the error of the
\* additional packages is only logged
pkgFatal(i) == i \in {PkgUpgrade, PkgEssential, PkgKernel}

RECURSIVE installPackagesFrom(_, _, _, _)
\* installPackages from step i on: fails are the steps whose command fails,
\* hasAdditional is len(b.Config.Packages.Additional) > 0
installPackagesFrom(fails, hasAdditional, i, t) ==
  IF i > PkgAdditional \/ (i = PkgAdditional /\ ~hasAdditional) THEN [trace |-> t, err |-> Nil]
  ELSE LET failed == i \in fails
           t2 == [ran    |-> t.ran \cup {i},
                  failed |-> IF failed THEN t.failed \cup {i} ELSE t.failed,
                  logged |-> IF failed /\ ~pkgFatal(i) THEN t.logged \cup {i} ELSE t.logged]
       IN  IF failed /\ pkgFatal(i) THEN [trace |-> t2, err |-> "exit status 100"]
           ELSE installPackagesFrom(fails, hasAdditional, i + 1, t2)

\* installPackages: dist-upgrade, essential packages, kernel, additional packages
installPackages ==
  /\ Reached("installPackages")
  /\ \E fails \in SUBSET (PkgUpgrade .. PkgAdditional) :
       LET r == installPackagesFrom(fails, cfg.additional, PkgUpgrade, NoTrace)
       IN  /\ trace' = r.trace
           /\ BuildStep("installPackages", r.err, FALSE)
  /\ UNCHANGED << fsVars, bootRuns, unattempted, restOfPhase >>

\* the steps of installDesktop, in the order of the code
DeskLookup == 1      \* desktopPackages[b.Config.Packages.Desktop]
DeskInstall == 2     \* apt-get install of the desktop packages
DeskInstaller == 3   \* apt-get install of the ubiquity packages
DeskSlideshows == 4  \* apt-get purge of the slideshow packages
DeskCalamares == 5   \* setupCalamares
DeskPurge == 6       \* apt-get purge of the remove-list
DeskAutoremove == 7  \* apt-get autoremove
DeskRefine == 8      \* refineVanillaGNOME

\* the steps installDesktop takes for a configuration
deskApplies(c, i) ==
  CASE i = DeskLookup -> c.desktop # "none"
    [] i = DeskInstall -> c.desktop # "none"
    [] i = DeskInstaller -> c.installer = "ubiquity"
    [] i = DeskSlideshows -> c.installer = "ubiquity" /\ c.desktop # "none"
    [] i = DeskCalamares -> c.installer = "calamares"
    [] i = DeskPurge -> c.remove
    [] i = DeskAutoremove -> TRUE
    [] i = DeskRefine -> c.desktop = "gnome" /\ c.distro # "debian"
    [] OTHER -> FALSE

\* every step of installDesktop returning its error
deskFatalAlways(i) == TRUE

\* the steps whose failure installDesktop returns
deskFatal(i) == i \in {DeskLookup, DeskInstall}

\* the steps whose failure installDesktop logs
deskLogged(i) == i \in {DeskInstaller, DeskCalamares}

\* desktop identifiers that have an entry in desktopPackages
DesktopPackages == {"gnome", "kde", "xfce", "lxde", "lxqt", "mate"}

RECURSIVE installDesktopFrom(_, _, _, _)
\* installDesktop from step i on: fails are the steps whose command fails
installDesktopFrom(c, fails, i, t) ==
  IF i > DeskRefine THEN [trace |-> t, err |-> Nil]
  ELSE IF ~deskApplies(c, i) THEN installDesktopFrom(c, fails, i + 1, t)
  ELSE LET failed == IF i = DeskLookup THEN c.desktop \notin DesktopPackages ELSE i \in fails
           t2 == [ran    |-> t.ran \cup {i},
                  failed |-> IF failed THEN t.failed \cup {i} ELSE t.failed,
                  logged |-> IF failed /\ deskLogged(i) THEN t.logged \cup {i} ELSE t.logged]
       IN  IF failed /\ deskFatal(i)
             THEN [trace |-> t2,
                   err |-> IF i = DeskLookup THEN "unknown desktop environment"
                           ELSE "exit status 100"]
             ELSE installDesktopFrom(c, fails, i + 1, t2)

\* the commands of installDesktop that fail: none, one, or all of them
DeskFailures ==
  {{}} \cup { {k} : k \in DeskInstall .. DeskRefine } \cup { DeskInstall .. DeskRefine }

\* installDesktop: unknown desktop or failed desktop package installation is fatal
installDesktop ==
  /\ Reached("installDesktop")
  /\ \E fails \in DeskFailures :
       LET r == installDesktopFrom(cfg, fails, DeskLookup, NoTrace)
       IN  /\ fails \in {{}, DeskInstall .. DeskRefine} \/ fails \subseteq r.trace.ran
           /\ trace' = r.trace
           /\ BuildStep("installDesktop", r.err, FALSE)
  /\ UNCHANGED << fsVars, bootRuns, unattempted, restOfPhase >>

\* setupFlatpak: nothing unless enabled
setupFlatpak ==
  /\ Reached("setupFlatpak")
  /\ trace' = NoTrace
  /\ \E err \in (IF cfg.flatpak THEN {Nil, "exit status 100"} ELSE {Nil}) :
       BuildStep("setupFlatpak", err, FALSE)
  /\ UNCHANGED << fsVars, bootRuns, unattempted, restOfPhase >>

\* configureBootloader: only writing grub.cfg can fail the phase
configureBootloader ==
  /\ Reached("configureBootloader")
  /\ trace' = NoTrace
  /\ \E err \in {Nil, "write grub.cfg: no space left on device"} :
       BuildStep("configureBootloader", err, FALSE)
  /\ UNCHANGED << fsVars, bootRuns, unattempted, restOfPhase >>

RECURSIVE chrootUmountFrom(_, _, _)
\* the three "umount ... || true" commands of cleanupChroot
chrootUmountFrom(m, uo, i) ==
  IF i > Len(ChrootUmounts) THEN m
  ELSE LET t == ChrootUmounts[i]
       IN  chrootUmountFrom(IF uo[t] /\ m[t] > 0 THEN Umount(m, t) ELSE m, uo, i + 1)

\* cleanupChroot: every command result is dropped
cleanupChroot ==
  /\ Reached("cleanupChroot")
  /\ \E rmOK \in BOOLEAN,
        uo \in [{ChrootUmounts[i] : i \in 1 .. Len(ChrootUmounts)} -> CmdOutcomes] :
       /\ trace' = [ran    |-> 1 .. NumCleanScripts,
                    failed |-> IF rmOK THEN {} ELSE {CleanRmInitctl},
                    logged |-> {}]
       /\ initctl' = (initctl /\ ~rmOK)
       /\ mounts' = chrootUmountFrom(mounts, uo, 1)
       /\ unattempted' = unattempted \ DOMAIN uo
  /\ BuildStep("cleanupChroot", Nil, FALSE)
  /\ UNCHANGED << dirs, etc, iso, bootRuns, restOfPhase >>

\* createFilesystem: manifest and mksquashfs
createFilesystem ==
  /\ Reached("createFilesystem")
  /\ trace' = NoTrace
  /\ \E err \in {Nil, "mksquashfs: exit status 1"} : BuildStep("createFilesystem", err, FALSE)
  /\ UNCHANGED << fsVars, bootRuns, unattempted, restOfPhase >>

\* createISO: boot images, checksums and xorriso
\* The calls of createISO whose result decides what happens next, in the order
\* of the code.  onError is what the code does with a failure: "return" the
\* error, "warn" (a log line, then go on) or "drop" (go on with no log line).
ISOSteps ==
  << [name |-> "mkdir isolinux",    onError |-> "return"],
     [name |-> "copy shim",         onError |-> "warn"],
     [name |-> "copy mm",           onError |-> "drop"],
     [name |-> "stat grub",         onError |-> "warn"],
     [name |-> "cp grub",           onError |-> "warn"],
     [name |-> "find grub",         onError |-> "return"],
     [name |-> "cp found grub",     onError |-> "drop"],
     [name |-> "dd",                onError |-> "return"],
     [name |-> "mkfs.vfat",         onError |-> "return"],
     [name |-> "mmd",               onError |-> "drop"],
     [name |-> "mcopy",             onError |-> "drop"],
     [name |-> "grub-mkstandalone", onError |-> "return"],
     [name |-> "cat bios.img",      onError |-> "return"],
     [name |-> "create md5sum.txt", onError |-> "return"],
     [name |-> "find | md5sum",     onError |-> "drop"],
     [name |-> "read md5sum.txt",   onError |-> "drop"],
     [name |-> "write md5sum.txt",  onError |-> "drop"],
     [name |-> "stat boot_hybrid",  onError |-> "warn"],
     [name |-> "xorriso",           onError |-> "return"] >>

\* the position of a call in createISO
ISOStep(name) == CHOOSE i \in DOMAIN ISOSteps : ISOSteps[i].name = name

\* the error createISO returns when call i fails
isoError(i) ==
  IF i = ISOStep("mkdir isolinux") THEN "failed to create isolinux directory"
  ELSE IF i = ISOStep("find grub") THEN "mandatory EFI loader grubx64.efi could not be located"
  ELSE "exit status 1"

\* the call createISO makes after call i: copyFile(grubEfiPaths) is the stat
\* and the cp of a known path, the search runs only when copyFile is false
isoNext(i, failed) ==
  IF i = ISOStep("stat grub") THEN (IF failed THEN ISOStep("find grub") ELSE ISOStep("cp grub"))
  ELSE IF i = ISOStep("cp grub") THEN (IF failed THEN ISOStep("find grub") ELSE ISOStep("dd"))
  ELSE i + 1

\* the boot components createISO can do without
OptionalISOSteps == { ISOStep(n) : n \in {"copy shim", "copy mm", "stat boot_hybrid"} }

\* the failures of createISO's calls considered: none, any single one, any
\* set of absent optional components, and no usable loader at a known path
\* together with a failure of the search or of the copy of what the search found
ISOFailures ==
  {{}} \cup { {i} : i \in DOMAIN ISOSteps }
       \cup SUBSET OptionalISOSteps
       \cup { {ISOStep(a), ISOStep(b)} : a \in {"stat grub", "cp grub"},
                                         b \in {"find grub", "cp found grub"} }

RECURSIVE createISOFrom(_, _, _)
\* createISO from call i on; fails are the calls that fail
createISOFrom(fails, i, t) ==
  IF i > Len(ISOSteps) THEN [trace |-> t, err |-> Nil]
  ELSE LET failed == i \in fails
           t2 == [ran    |-> t.ran \cup {i},
                  failed |-> IF failed THEN t.failed \cup {i} ELSE t.failed,
                  logged |-> IF failed /\ ISOSteps[i].onError = "warn"
                               THEN t.logged \cup {i} ELSE t.logged]
       IN  IF failed /\ ISOSteps[i].onError = "return"
             THEN [trace |-> t2, err |-> isoError(i)]
             ELSE createISOFrom(fails, isoNext(i, failed), t2)

\* grubx64.efi is in the staging directory: one of the two cp commands that
\* write it has run and succeeded
grubStaged(t) ==
  \E i \in {ISOStep("cp grub"), ISOStep("cp found grub")} : i \in t.ran \ t.failed

\* an invocation that always passes every optional argument
xorrisoArgsFixed(t) ==
  {"--grub2-mbr", "/EFI/boot/bootx64.efi", "/EFI/boot/mmx64.efi", "/EFI/boot/grubx64.efi"}

\* the optional arguments of the xorriso invocation: --grub2-mbr when
\* os.Stat(hybridImg) succeeds, a graft entry for each loader of efiMap whose
\* file os.Stat finds in the staging directory
xorrisoArgs(t) ==
  LET done(n) == ISOStep(n) \in t.ran \ t.failed
  IN  (IF done("stat boot_hybrid") THEN {"--grub2-mbr"} ELSE {})
        \cup (IF done("copy shim") THEN {"/EFI/boot/bootx64.efi"} ELSE {})
        \cup (IF done("copy mm") THEN {"/EFI/boot/mmx64.efi"} ELSE {})
        \cup (IF grubStaged(t) THEN {"/EFI/boot/grubx64.efi"} ELSE {})

createISO ==
  /\ Reached("createISO")
  /\ \E fails \in ISOFailures :
       LET r == createISOFrom(fails, 1, NoTrace)
       IN  /\ trace' = r.trace
           /\ iso' = IF r.err = Nil THEN "workspace" ELSE iso
           /\ BuildStep("createISO", r.err, FALSE)
  /\ UNCHANGED << dirs, etc, initctl, mounts, bootRuns, unattempted, restOfPhase >>

\* -------------------------------------------------------------------- main

NoCalls == [ i \in StepIdx |-> 0 ]
NoOutcome == [ i \in StepIdx |-> "none" ]
NoMounts == [ t \in Targets |-> 0 ]

\* a kagami process starts on a workspace that does not exist yet
\* The runs considered: every configuration in the default environment, and
\* every working directory and host with the configuration of a plain
\* "kagami --release noble"
Fresh ==
  /\ cfg \in Configs
  /\ workDir \in WorkDirs
  /\ host \in Hosts
  /\ \/ workDir = "/srv/kagami" /\ host = [missing |-> {}, euid |-> 0]
     \/ ~cfg.file /\ cfg.asked = "noble"
  /\ release = cfg.release
  /\ debianAlias = ""
  /\ fetched = "-"
  /\ dirs = {}
  /\ etc = "absent"
  /\ initctl = FALSE
  /\ mounts = NoMounts
  /\ iso = "none"
  /\ bstate = "idle"
  /\ step = 0
  /\ calls = NoCalls
  /\ outcome = NoOutcome
  /\ printed = 0
  /\ lastFn = ""
  /\ phaseErr = Nil
  /\ trace = NoTrace
  /\ stateCaused = FALSE
  /\ buildErr = NoError
  /\ pc = "start"
  /\ mode \in Modes
  /\ seenErr = NoError
  /\ resumedOn = ""
  /\ success = FALSE
  /\ banner = FALSE
  /\ exitStatus = -1
  /\ runNo = 1
  /\ bootRuns = << >>
  /\ unattempted = {}
  /\ rmCount = 0
  /\ mountedAtRm = {}
  /\ prevOK = {}
  /\ answer = NoAnswer

Init ==
  /\ Fresh
  /\ mountFaults = TRUE
  /\ args = NoArgs
  /\ result = NoResult

\* main creates the builder and starts the build: b.Build() on the main
\* goroutine, or tui.ShowBuild(b), which runs b.Build() on a goroutine of its own
Launch ==
  /\ pc = "start"
  /\ Validate(cfg) = Nil
  /\ pc' = "wait"
  /\ bstate' = "starting"
  /\ UNCHANGED << cfg, args, result, answer, workDir, host, mountFaults, release, debianAlias, fetched, fsVars, step, calls, outcome,
                  printed, lastFn, phaseErr, trace, stateCaused, buildErr, mode, seenErr, resumedOn,
                  success, banner, exitStatus, runNo, histVars >>

\* main calls fatal when cfg.Validate() returns an error: the message is
\* printed and the process ends with os.Exit(1)
ValidationFailed ==
  /\ pc = "start"
  /\ Validate(cfg) # Nil
  /\ seenErr' = [label |-> "", cause |-> Validate(cfg)]
  /\ pc' = "exited"
  /\ exitStatus' = 1
  /\ UNCHANGED << cfg, args, result, answer, workDir, host, mountFaults, release, debianAlias, fetched, fsVars, buildVars, mode,
                  resumedOn, success, banner, runNo, histVars >>

\* what "wget -qO- <mirror>dists/<alias>/Release" yields: "" when wget fails or
\* the file has no Codename line, otherwise the codename
CodenameOutcomes == {"", "trixie"}

DebianAliases == {"stable", "testing", "unstable"}

\* resolution that puts the query result in place of the release whatever it is
resolveDebianReleaseNoFallback(distro, rel, codename) ==
  IF distro = "debian" /\ rel \in DebianAliases THEN codename ELSE rel

\* resolveDebianRelease: the release after resolution
resolveDebianRelease(distro, rel, codename) ==
  IF distro = "debian" /\ rel \in DebianAliases /\ codename # "" THEN codename ELSE rel

\* the head of Build: resolve the release, build the steps list, enter the loop
Build ==
  /\ bstate = "starting"
  /\ \E codename \in CodenameOutcomes :
       /\ release' = resolveDebianRelease(cfg.distro, release, codename)
       /\ fetched' = IF cfg.distro = "debian" /\ release \in DebianAliases THEN codename ELSE "-"
  /\ debianAlias' = IF cfg.distro = "debian" /\ release \in DebianAliases
                      THEN release ELSE debianAlias
  /\ bstate' = "running"
  /\ step' = 0
  /\ UNCHANGED << cfg, args, result, answer, workDir, host, mountFaults, fsVars, calls, outcome, printed, lastFn, phaseErr,
                  trace, stateCaused, buildErr, mainVars, histVars >>

\* relocateISO / moveISOToSafety: an ISO inside the workspace is moved to the
\* directory of the executable (or the current directory), unless
\* os.Executable fails or both the rename and the copy fail
relocateISO(where, env) ==
  IF where # "workspace" THEN where
  ELSE IF ~env.execKnown THEN where
  ELSE IF env.destInside THEN "workspace"
  ELSE IF env.renameOK \/ env.cpOK THEN "safe"
  ELSE where

\* what moveISOToSafety meets: os.Executable succeeds, the directory it moves
\* the ISO to lies inside the workspace, os.Rename and cp succeed
MoveEnvs == [execKnown : BOOLEAN, destInside : BOOLEAN, renameOK : BOOLEAN, cpOK : BOOLEAN]

\* main after the build call returned err: the failure branch prints the error
\* and goes to offerCleanup(b, false); otherwise the ISO is relocated, the
\* success banner printed and offerCleanup(b, true) called
AfterBuild(err) ==
  /\ seenErr' = err
  /\ resumedOn' = bstate
  /\ pc' = "prompt"
  /\ IF err # NoError
       THEN /\ success' = FALSE
            /\ banner' = banner
            /\ iso' = iso
       ELSE /\ success' = TRUE
            /\ banner' = TRUE
            /\ \E env \in MoveEnvs : iso' = relocateISO(iso, env)

\* b.Build() returned to main
MainBuildReturned ==
  /\ pc = "wait"
  /\ mode = "direct"
  /\ bstate \in {"ok", "failed"}
  /\ AfterBuild(buildErr)
  /\ UNCHANGED << cfg, args, result, answer, workDir, host, mountFaults, release, debianAlias, fetched, dirs, etc, initctl, mounts,
                  buildVars, mode, exitStatus, runNo, histVars >>

\* ShowBuild returns the error of p.Run(): nil after tea.Quit (sent on doneMsg
\* and on ctrl+c), an error when the terminal program itself failed
ShowBuildResult(runErr, built) ==
  IF runErr = Nil THEN NoError ELSE [label |-> "", cause |-> runErr]

\* tui.ShowBuild(b) returned to main: the program quit on doneMsg, or on
\* ctrl+c while Build is still running on its goroutine, or failed
ShowBuild ==
  /\ pc = "wait"
  /\ mode = "tui"
  /\ \E runErr \in {Nil, "could not open a new TTY"} :
       AfterBuild(ShowBuildResult(runErr, buildErr))
  /\ UNCHANGED << cfg, args, result, answer, workDir, host, mountFaults, release, debianAlias, fetched, dirs, etc, initctl, mounts,
                  buildVars, mode, exitStatus, runNo, histVars >>

\* a prompt that removes on y only, after a failed build too
RemovalChosenOptIn(ok, input) == Normalize(input) = << "y" >>

\* offerCleanup: whether RemoveWorkspace is called for the line read
RemovalChosen(ok, input) ==
  IF ok THEN Normalize(input) = << "y" >> ELSE Normalize(input) # << "n" >>

\* offerCleanup(b, success), followed by the end of the process
offerCleanup ==
  /\ pc = "prompt"
  /\ \E stdin \in Inputs :
       /\ answer' = ReadString(stdin)
       /\ IF RemovalChosen(success, answer')
            THEN \E u \in UmountOutcomes(mounts) : RemoveWorkspace(u)
            ELSE UNCHANGED << fsVars, unattempted, rmCount, mountedAtRm, bootRuns >>
  /\ exitStatus' = IF success THEN 0 ELSE 1
  /\ pc' = "exited"
  /\ bstate' = IF bstate \in {"starting", "running"} THEN "killed" ELSE bstate
  /\ UNCHANGED << cfg, args, result, workDir, host, mountFaults, release, debianAlias, fetched, step, calls, outcome, printed,
                  lastFn, phaseErr, trace, stateCaused, buildErr, mode, seenErr, resumedOn, success,
                  banner, runNo, prevOK >>

\* a new kagami process is started with the same configuration and workspace
Rerun ==
  /\ pc = "exited"
  /\ runNo < MaxRuns
  /\ runNo' = runNo + 1
  /\ prevOK' = IF rmCount > 0 THEN {} ELSE { StepFn(i) : i \in { j \in StepIdx : outcome[j] = "ok" } }
  /\ release' = cfg.release
  /\ debianAlias' = ""
  /\ fetched' = "-"
  /\ bstate' = "idle"
  /\ step' = 0
  /\ calls' = NoCalls
  /\ outcome' = NoOutcome
  /\ printed' = 0
  /\ lastFn' = ""
  /\ phaseErr' = Nil
  /\ trace' = NoTrace
  /\ stateCaused' = FALSE
  /\ buildErr' = NoError
  /\ pc' = "start"
  /\ answer' = NoAnswer
  /\ mode' = mode
  /\ seenErr' = NoError
  /\ resumedOn' = ""
  /\ success' = FALSE
  /\ banner' = FALSE
  /\ exitStatus' = -1
  /\ unattempted' = {}
  /\ rmCount' = 0
  /\ mountedAtRm' = {}
  /\ UNCHANGED << cfg, args, result, workDir, host, mountFaults, fsVars, bootRuns >>

\* one kagami process, started in any mode
Next ==
  \/ ValidationFailed
  \/ Launch
  \/ Build
  \/ checkPrerequisites
  \/ createDirectories
  \/ bootstrapSystem
  \/ mountFilesystems
  \/ configureSystem
  \/ blockSnapd
  \/ installPackages
  \/ installDesktop
  \/ setupFlatpak
  \/ configureBootloader
  \/ cleanupChroot
  \/ createFilesystem
  \/ createISO
  \/ cleanup
  \/ MainBuildReturned
  \/ ShowBuild
  \/ offerCleanup

Spec == Init /\ [][Next]_vars

\* Processes run one after another on the same workspace, each calling
\* b.Build() directly, in an environment where mount and umount work.
InitRerun ==
  /\ Fresh
  /\ mountFaults = FALSE
  /\ mode = "direct"
  /\ cfg.distro = "ubuntu"
  /\ cfg.asked # "devel"
  /\ args = NoArgs
  /\ result = NoResult

NextRerun ==
  \/ ValidationFailed
  \/ Launch
  \/ Build
  \/ checkPrerequisites
  \/ createDirectories
  \/ bootstrapSystem
  \/ mountFilesystems
  \/ configureSystem
  \/ blockSnapd
  \/ installPackages
  \/ installDesktop
  \/ setupFlatpak
  \/ configureBootloader
  \/ cleanupChroot
  \/ createFilesystem
  \/ createISO
  \/ cleanup
  \/ MainBuildReturned
  \/ offerCleanup
  \/ Rerun

SpecRerun == InitRerun /\ [][NextRerun]_vars

\* ------------------------------------------------ functions studied alone

\* no process has been started: the state in which a function is studied
Parked ==
  /\ Fresh
  /\ mountFaults = FALSE
  /\ cfg.asked = "lts"
  /\ workDir = "/srv/kagami"
  /\ host = [missing |-> {}, euid |-> 0]
  /\ mode = "direct"

RECURSIVE Split(_, _)
\* strings.Split(s, sep) for a one-character sep: Split("") is one empty piece
Split(s, sep) ==
  IF \A i \in DOMAIN s : s[i] # sep THEN << s >>
  ELSE LET k == CHOOSE i \in DOMAIN s : s[i] = sep /\ \A j \in 1 .. (i - 1) : s[j] # sep
       IN  << SubSeq(s, 1, k - 1) >> \o Split(SubSeq(s, k + 1, Len(s)), sep)

RECURSIVE Join(_, _)
\* strings.Join(elems, sep): the empty string for no element
Join(elems, sep) ==
  IF elems = << >> THEN << >>
  ELSE IF Len(elems) = 1 THEN elems[1]
  ELSE elems[1] \o << sep >> \o Join(Tail(elems), sep)

\* strings.Contains(s, substr)
Contains(s, substr) ==
  \E i \in 0 .. (Len(s) - Len(substr)) : SubSeq(s, i + 1, i + Len(substr)) = substr

\* one round of the loop over liveRemovePackages: split, keep the lines that
\* do not contain pkg, join
filterLines(content, pkg) ==
  Join(SelectSeq(Split(content, NL), LAMBDA line : ~Contains(line, pkg)), NL)

\* a loop that filters the first package name only
stripFirstOnly(content, pkgs) ==
  IF pkgs = << >> THEN content ELSE filterLines(content, Head(pkgs))

RECURSIVE stripManifest(_, _)
\* manifestContent after the loop over liveRemovePackages
stripManifest(content, pkgs) ==
  IF pkgs = << >> THEN content
  ELSE stripManifest(filterLines(content, Head(pkgs)), Tail(pkgs))

\* the lines dpkg-query prints with --showformat='${Package} ${Version}\n',
\* over the characters a, b and the blank
ManifestLines ==
  { << "a", " ", "b" >>, << "b", " ", "a" >>, << "a", "b", " ", "a" >>,
    << "b", "a", " ", "b" >>, << "b", "b", " ", "b" >> }

RECURSIVE ManifestsOf(_)
\* the outputs of dpkg-query with n lines, each ended by a newline
ManifestsOf(n) ==
  IF n = 0 THEN { << >> }
  ELSE { l \o << NL >> \o m : l \in ManifestLines, m \in ManifestsOf(n - 1) }

Manifests == UNION { ManifestsOf(n) : n \in 0 .. MaxLines }

\* lists in the place of liveRemovePackages
RemoveLists ==
  { << >>, << << "a" >> >>, << << "a", "b" >> >>, << << "b", "a" >>, << "a", "b" >> >>,
    << << "a", "a" >>, << "b", "b" >> >>, << << "b", "b" >>, << "a", " " >> >>,
    << << "a", "b", " ", "a" >> >> }

InitManifest ==
  /\ Parked
  /\ args \in { [fn |-> "createFilesystem", manifest |-> m, remove |-> r] :
                   m \in Manifests, r \in RemoveLists }
  /\ result = NoResult

\* createFilesystem from the dpkg-query output to the content it writes to
\* filesystem.manifest-desktop
writeManifestDesktop ==
  /\ args.fn = "createFilesystem"
  /\ result = NoResult
  /\ result' = [fn |-> "createFilesystem", content |-> stripManifest(args.manifest, args.remove)]
  /\ UNCHANGED << cfg, args, answer, workDir, host, mountFaults, release, debianAlias, fetched, fsVars,
                  buildVars, mainVars, histVars >>

NextManifest == writeManifestDesktop

SpecManifest == InitManifest /\ [][NextManifest]_vars

\* isMounted on the text of /proc/mounts.  A path is the sequence of its
\* characters; PathOf builds an absolute path from its components.
RECURSIVE PathOf(_)
PathOf(comps) ==
  IF comps = << >> THEN << >> ELSE << "/" >> \o Head(comps) \o PathOf(Tail(comps))

\* directory names: two workspaces of which one name begins with the other, a
\* workspace with a blank in its name, the working directory of the process,
\* a symbolic link to the first workspace, dev and dev/pts
DirW == << "w" >>
DirW2 == << "w", "2" >>
DirBlank == << "m", " ", "b" >>
DirCwd == << "r" >>
DirLink == << "l" >>
DirDev == << "d" >>
DirPts == << "p" >>

\* the process's working directory
Getwd == PathOf(<< DirCwd >>)

\* the directories that can be mount points
MountPoints ==
  { PathOf(<< DirW, DirDev >>), PathOf(<< DirW, DirDev, DirPts >>), PathOf(<< DirW2, DirDev >>),
    PathOf(<< DirBlank, DirDev >>), PathOf(<< DirCwd, DirW, DirDev >>) }

\* the paths isMounted is asked about: /w/d, /w/d/p, /w, /l/d through the
\* link, /m b/d, and the relative w/d
AskedPaths ==
  { PathOf(<< DirW, DirDev >>), PathOf(<< DirW, DirDev, DirPts >>), PathOf(<< DirW >>),
    PathOf(<< DirLink, DirDev >>), PathOf(<< DirBlank, DirDev >>),
    Tail(PathOf(<< DirW, DirDev >>)) }

\* filepath.Abs: a relative path is joined to the working directory
filepathAbs(path) ==
  IF path # << >> /\ path[1] = "/" THEN path ELSE Getwd \o << "/" >> \o path

\* the directory a path names: the link /l stands for /w
EvalSymlinks(path) ==
  LET link == PathOf(<< DirLink >>)
  IN  IF Len(path) >= Len(link) /\ SubSeq(path, 1, Len(link)) = link
           /\ (Len(path) = Len(link) \/ path[Len(link) + 1] = "/")
        THEN PathOf(<< DirW >>) \o SubSeq(path, Len(link) + 1, Len(path))
        ELSE path

RECURSIVE Mangle(_)
\* the kernel writes a blank of a mount point as \040 in /proc/mounts
Mangle(str) ==
  IF str = << >> THEN << >>
  ELSE (IF Head(str) = " " THEN << "\\", "0", "4", "0" >> ELSE << Head(str) >>) \o Mangle(Tail(str))

RECURSIVE ProcMounts(_)
\* the text of /proc/mounts for a set of mounted directories: one line
\* "device mountpoint type" for each
ProcMounts(mounted) ==
  IF mounted = {} THEN << >>
  ELSE LET mp == CHOOSE x \in mounted : TRUE
       IN  << "u", " " >> \o Mangle(mp) \o << " ", "t", NL >> \o ProcMounts(mounted \ {mp})

\* strings.Fields
Fields(str) == SelectSeq(Split(str, " "), LAMBDA f : f # << >>)

\* isMounted: some line of the text has filepath.Abs(path) as its second field
isMountedScan(text, path) ==
  LET lines == Split(text, NL)
      absPath == filepathAbs(path)
  IN  \E k \in DOMAIN lines :
        LET fields == Fields(lines[k])
        IN  Len(fields) >= 2 /\ fields[2] = absPath

InitMounted ==
  /\ Parked
  /\ args \in { [fn |-> "isMounted", mounted |-> m, path |-> q] :
                   m \in SUBSET MountPoints, q \in AskedPaths }
  /\ result = NoResult

\* a call of isMounted(args.path) while args.mounted are mounted
callIsMounted ==
  /\ args.fn = "isMounted"
  /\ result = NoResult
  /\ result' = [fn |-> "isMounted", value |-> isMountedScan(ProcMounts(args.mounted), args.path)]
  /\ UNCHANGED << cfg, args, answer, workDir, host, mountFaults, release, debianAlias, fetched, fsVars,
                  buildVars, mainVars, histVars >>

NextMounted == callIsMounted

SpecMounted == InitMounted /\ [][NextMounted]_vars

\* cleanup, one umount command at a time.  result holds the mount table, the
\* place i in the mounts list, the attempts made on the target at i, and for
\* every target the attempts made and whether one succeeded.

\* "for i := 0; i < 3; i++" in cleanup
MaxAttempts == 3

\* a retry loop without the break
umountBreaksNever(err) == FALSE

\* "if err := cmd.Run(); err == nil { break }"
umountBreaks(err) == err = Nil

\* the mount tables cleanup is studied on: any of the five targets mounted,
\* the mounted ones stacked to the same depth, as runs that each mount every
\* target once leave them
CleanupTables ==
  { m \in [Targets -> 0 .. MaxDepth] :
      \A t, u \in Targets : (m[t] > 0 /\ m[u] > 0) => m[t] = m[u] }

InitCleanup ==
  /\ Parked
  /\ args \in { [fn |-> "cleanup", table |-> m, emptied |-> FALSE, call |-> 1] :
                  m \in CleanupTables }
  /\ result = [fn |-> "cleanup", table |-> args.table, i |-> 1, tries |-> 0,
               attempts |-> [t \in Targets |-> 0], succeeded |-> {},
               done |-> FALSE, ret |-> "-"]

\* the walk is at a target isMounted does not find mounted
cleanupSkip ==
  /\ result.fn = "cleanup" /\ ~result.done
  /\ result.i <= Len(CleanupMounts)
  /\ result.tries = 0
  /\ ~isMounted(result.table, CleanupMounts[result.i])
  /\ result' = [result EXCEPT !.i = @ + 1]

\* one "umount -l" of the target the walk is at
cleanupUmount ==
  /\ result.fn = "cleanup" /\ ~result.done
  /\ result.i <= Len(CleanupMounts)
  /\ result.tries > 0 \/ isMounted(result.table, CleanupMounts[result.i])
  /\ \E err \in {Nil, "exit status 32"} :
       LET t == CleanupMounts[result.i]
           over == umountBreaks(err) \/ result.tries + 1 >= MaxAttempts
       IN  result' = [result EXCEPT
             !.table = IF err = Nil THEN UmountLazy(@, t) ELSE @,
             !.attempts[t] = @ + 1,
             !.succeeded = IF err = Nil THEN @ \cup {t} ELSE @,
             !.tries = IF over THEN 0 ELSE @ + 1,
             !.i = IF over THEN @ + 1 ELSE @]

\* "return nil" after the list
cleanupReturn ==
  /\ result.fn = "cleanup" /\ ~result.done
  /\ result.i > Len(CleanupMounts)
  /\ result' = [result EXCEPT !.done = TRUE, !.ret = Nil]

\* cleanup is called once more, on the mount table the last call left
cleanupAgain ==
  /\ result.fn = "cleanup" /\ result.done
  /\ args.call < MaxCalls
  /\ args' = [fn |-> "cleanup", table |-> result.table,
              emptied |-> args.table # NoMounts /\ result.table = NoMounts,
              call |-> args.call + 1]
  /\ result' = [fn |-> "cleanup", table |-> result.table, i |-> 1, tries |-> 0,
                attempts |-> [t \in Targets |-> 0], succeeded |-> {},
                done |-> FALSE, ret |-> "-"]

NextCleanup ==
  /\ \/ cleanupSkip /\ UNCHANGED args
     \/ cleanupUmount /\ UNCHANGED args
     \/ cleanupReturn /\ UNCHANGED args
     \/ cleanupAgain
  /\ UNCHANGED << cfg, answer, workDir, host, mountFaults, release, debianAlias, fetched, fsVars,
                  buildVars, mainVars, histVars >>

\* cleanup runs on one thread: a step that can be taken is taken
SpecCleanup == InitCleanup /\ [][NextCleanup]_vars /\ WF_vars(NextCleanup)

\* The two producer/consumer pipelines: "find | xargs md5sum" of createISO and
\* "wget | gpg --dearmor" of configureAdditionalRepos.  result.pc is the
\* statement the phase is at, result.running the external processes alive.
\* A process that was started exits when it likes.

Pipelines == {"md5sum", "key"}

\* what the operating system answers to each call of one pass
PipelineFaults == [pipe : BOOLEAN, create : BOOLEAN, start : BOOLEAN, run : BOOLEAN]

InitPipeline ==
  /\ Parked
  /\ args \in { [fn |-> "pipeline", kind |-> k, fails |-> f] :
                  k \in Pipelines, f \in PipelineFaults }
  /\ result = [fn |-> "pipeline", pc |-> "StdoutPipe", running |-> {}, started |-> {}]

\* a Wait that does not wait
exitedOrNot(running, p) == TRUE

\* cmd.Wait, and the second half of cmd.Run and cmd.CombinedOutput, return
\* when the process is gone
exited(running, p) == p \notin running

\* findCmd.StdoutPipe with its error dropped; wgetCmd.StdoutPipe with
\* "continue" on error
pipeStdoutPipe ==
  /\ result.fn = "pipeline" /\ result.pc = "StdoutPipe"
  /\ result' = [result EXCEPT !.pc =
       IF args.kind = "key" /\ args.fails.pipe THEN "returned"
       ELSE IF args.kind = "md5sum" THEN "Create" ELSE "Start"]

\* os.Create(md5Path) with "return err"
pipeCreate ==
  /\ result.fn = "pipeline" /\ result.pc = "Create"
  /\ result' = [result EXCEPT !.pc = IF args.fails.create THEN "returned" ELSE "Start"]

\* findCmd.Start() with its error dropped; wgetCmd.Start() with "continue"
pipeStart ==
  /\ result.fn = "pipeline" /\ result.pc = "Start"
  /\ result' = IF args.fails.start
       THEN [result EXCEPT !.pc = IF args.kind = "key" THEN "returned" ELSE "Run"]
       ELSE [result EXCEPT !.pc = "Run", !.running = @ \cup {"producer"},
                           !.started = @ \cup {"producer"}]

\* xargsCmd.Run() and gpgCmd.CombinedOutput(): the consumer is started
pipeRun ==
  /\ result.fn = "pipeline" /\ result.pc = "Run"
  /\ result' = IF args.fails.run
       THEN [result EXCEPT !.pc = "Wait"]
       ELSE [result EXCEPT !.pc = "Running", !.running = @ \cup {"consumer"},
                           !.started = @ \cup {"consumer"}]

\* ... and waited for
pipeRunReturns ==
  /\ result.fn = "pipeline" /\ result.pc = "Running"
  /\ exited(result.running, "consumer")
  /\ result' = [result EXCEPT !.pc = "Wait"]

\* findCmd.Wait() and wgetCmd.Wait(); a command that was never started
\* gives an error at once
pipeWait ==
  /\ result.fn = "pipeline" /\ result.pc = "Wait"
  /\ exited(result.running, "producer")
  /\ result' = [result EXCEPT !.pc = "returned"]

\* an external process exits
procExit ==
  /\ result.fn = "pipeline"
  /\ \E p \in result.running : result' = [result EXCEPT !.running = @ \ {p}]

NextPipeline ==
  /\ \/ pipeStdoutPipe
     \/ pipeCreate
     \/ pipeStart
     \/ pipeRun
     \/ pipeRunReturns
     \/ pipeWait
     \/ procExit
  /\ UNCHANGED << cfg, args, answer, workDir, host, mountFaults, release, debianAlias, fetched, fsVars,
                  buildVars, mainVars, histVars >>

SpecPipeline == InitPipeline /\ [][NextPipeline]_vars

\* md5sum.txt of createISO.  A path is a sequence of pieces: ".", "/" and
\* the names between the slashes.

\* regular files the phases leave in the image directory, in the order find
\* prints them; md5sum.txt is created before find runs
ImagePaths ==
  << << ".", "/", "md5sum.txt" >>,
     << ".", "/", "casper", "/", "vmlinuz" >>,
     << ".", "/", "kagami-live" >>,
     << ".", "/", "isolinux", "/", "grub.cfg" >>,
     << ".", "/", "isolinux", "/", "efiboot.img" >> >>

\* the calls whose errors createISO drops while it writes md5sum.txt
ChecksumFaults == {"none", "find | md5sum", "read md5sum.txt", "write md5sum.txt"}

\* "find . -type f -print0 | xargs -0 md5sum": one line "<sum>  <path>" for
\* each of the files in paths
md5sumLines(paths) ==
  Join([ i \in 1 .. Len(paths) |-> << "sum", " ", " " >> \o paths[i] ], NL)
    \o (IF paths = << >> THEN << >> ELSE << NL >>)

\* the loop that keeps the lines without "isolinux" that are not empty
md5Filter(content) ==
  Join(SelectSeq(Split(content, NL),
                 LAMBDA line : ~Contains(line, << "isolinux" >>) /\ line # << >>), NL)

InitChecksums ==
  /\ Parked
  /\ args \in { [fn |-> "md5sum", present |-> {1} \cup f, fault |-> e, cut |-> c] :
                  f \in SUBSET (2 .. Len(ImagePaths)), e \in ChecksumFaults, c \in 0 .. 1 }
  /\ result = NoResult

\* createISO from os.Create(md5Path) to os.WriteFile(md5Path, ...): result is
\* the content of md5sum.txt afterwards
writeChecksums ==
  /\ args.fn = "md5sum"
  /\ result = NoResult
  /\ LET found == SelectSeq(ImagePaths, LAMBDA q : \E i \in args.present : ImagePaths[i] = q)
         \* a pipeline that fails leaves the lines written until then
         listed == IF args.fault = "find | md5sum"
                     THEN SubSeq(found, 1, IF args.cut < Len(found) THEN args.cut ELSE 0)
                     ELSE found
         raw == md5sumLines(listed)
         \* "content, _ := os.ReadFile(md5Path)"
         content == IF args.fault = "read md5sum.txt" THEN << >> ELSE raw
     IN  result' = [fn |-> "md5sum",
                    content |-> IF args.fault = "write md5sum.txt" THEN raw
                                ELSE md5Filter(content)]
  /\ UNCHANGED << cfg, args, answer, workDir, host, mountFaults, release, debianAlias, fetched, fsVars,
                  buildVars, mainVars, histVars >>

NextChecksums == writeChecksums

SpecChecksums == InitChecksums /\ [][NextChecksums]_vars

\* The kernel and initrd search of configureBootloader.  A file name of
\* chroot/boot is a sequence of pieces: the prefix, the version, the flavour.

BootFiles ==
  { << "vmlinuz-", "6.8.0-31-", "generic" >>, << "vmlinuz-", "6.8.0-31-", "lowlatency" >>,
    << "initrd.img-", "6.8.0-31-", "generic" >>, << "initrd.img-", "6.8.0-31-", "lowlatency" >> }

\* suffix as configureBootloader derives it from the distribution and the
\* kernel package name
KernelSuffixes == {"generic", "lowlatency"}

\* filepath.Glob(chroot/boot/<prefix>*<suffix>*); the broad pattern
\* <prefix>* is the one with the empty suffix
Glob(files, prefix, suffix) ==
  { f \in files : f[1] = prefix /\ (suffix = "" \/ \E i \in 2 .. Len(f) : f[i] = suffix) }

InitBootloader ==
  /\ Parked
  /\ args \in { [fn |-> "configureBootloader", boot |-> b, suffix |-> x, cpFails |-> c,
                  writeFails |-> w] :
                  b \in SUBSET BootFiles, x \in KernelSuffixes,
                  c \in SUBSET {"vmlinuz", "initrd"}, w \in BOOLEAN }
  /\ result = NoResult

\* configureBootloader from the patterns to its return
searchAndCopy ==
  /\ args.fn = "configureBootloader"
  /\ result = NoResult
  /\ LET specific == Glob(args.boot, "vmlinuz-", args.suffix)
         broad == specific = {}
         kernels == IF broad THEN Glob(args.boot, "vmlinuz-", "") ELSE specific
         initrds == Glob(args.boot, "initrd.img-", IF broad THEN "" ELSE args.suffix)
     IN  result' = [fn |-> "configureBootloader",
                    kernelPattern |-> IF broad THEN "broad" ELSE "specific",
                    initrdPattern |-> IF broad THEN "broad" ELSE "specific",
                    copied |-> ((IF kernels # {} THEN {"vmlinuz"} ELSE {})
                                  \cup (IF initrds # {} THEN {"initrd"} ELSE {}))
                                 \ args.cpFails,
                    err |-> IF args.writeFails
                              THEN "write grub.cfg: no space left on device" ELSE Nil]
  /\ UNCHANGED << cfg, args, answer, workDir, host, mountFaults, release, debianAlias, fetched, fsVars,
                  buildVars, mainVars, histVars >>

NextBootloader == searchAndCopy

SpecBootloader == InitBootloader /\ [][NextBootloader]_vars

\* The wizard of tui.Run and what main does with its result.  result holds
\* the Model (state, the choices that decide the path, outputPath, the row
\* selected in the list), how the program ended and where main is.

\* the state the wizard goes to on enter, for the item chosen there
wizardNext(m, pick) ==
  CASE m.state = "stateDistro" -> "stateRelease"
    [] m.state = "stateRelease" -> "stateMode"
    [] m.state = "stateMode" -> IF pick = "minimal" THEN "stateWM" ELSE "stateDesktop"
    [] m.state = "stateWM" -> "stateInstaller"
    [] m.state = "stateDesktop" -> "stateInstaller"
    [] m.state = "stateInstaller" ->
         IF m.mode = "minimal" \/ m.distro = "debian" THEN "stateHostname"
         ELSE IF pick = "ubiquity" THEN "stateSlideshow" ELSE "stateHostname"
    [] m.state = "stateSlideshow" -> "stateHostname"
    [] m.state = "stateHostname" -> "stateArch"
    [] m.state = "stateArch" -> "stateKernel"
    [] m.state = "stateKernel" -> "stateExtraPkgs"
    [] m.state = "stateExtraPkgs" -> "stateMirror"
    [] m.state = "stateMirror" ->
         IF m.installer = "calamares" THEN "stateBrandingName" ELSE "stateFlatpak"
    [] m.state = "stateBrandingName" -> "stateBrandingShort"
    [] m.state = "stateBrandingShort" -> "stateBrandingUrl"
    [] m.state = "stateBrandingUrl" -> "stateBrandingSupport"
    [] m.state = "stateBrandingSupport" -> "stateBrandingVersion"
    [] m.state = "stateBrandingVersion" -> "stateFlatpak"
    [] m.state = "stateFlatpak" -> IF m.distro = "ubuntu" THEN "stateSnapd" ELSE "stateFirewall"
    [] m.state = "stateSnapd" -> "stateFirewall"
    [] m.state = "stateFirewall" -> "stateOutputPath"
    [] m.state = "stateOutputPath" -> "stateConfirm"
    [] OTHER -> m.state

\* the items of the list shown in a state, first row first
wizardItems(m) ==
  CASE m.state = "stateDistro" -> << "ubuntu", "debian" >>
    [] m.state = "stateMode" -> << "minimal", "desktop" >>
    [] m.state = "stateInstaller" -> << "ubiquity", "calamares" >>
    [] m.state = "stateConfirm" -> << "y", "n" >>
    [] OTHER -> << "-" >>

InitWizard ==
  /\ Parked
  /\ args = [fn |-> "wizard"]
  /\ result = [fn |-> "wizard", state |-> "stateDistro", row |-> 1, distro |-> "", mode |-> "",
               installer |-> "", outputPath |-> "", confirmed |-> FALSE,
               program |-> "running", main |-> "tui.Run"]

\* a key that moves the selection of the list
keyDown ==
  /\ result.fn = "wizard" /\ result.program = "running"
  /\ result.row < Len(wizardItems(result))
  /\ result' = [result EXCEPT !.row = @ + 1]

\* enter in the state the wizard is in
keyEnter ==
  /\ result.fn = "wizard" /\ result.program = "running"
  /\ LET pick == wizardItems(result)[result.row]
     IN  IF result.state = "stateConfirm"
           THEN IF pick = "y"
                  THEN result' = [result EXCEPT !.program = "quit", !.confirmed = TRUE]
                  ELSE result' = [result EXCEPT !.program = "exit", !.main = "exited"]
           ELSE result' = [result EXCEPT
                  !.state = wizardNext(result, pick),
                  !.row = 1,
                  !.distro = IF result.state = "stateDistro" THEN pick ELSE @,
                  !.mode = IF result.state = "stateMode" THEN pick ELSE @,
                  !.installer = IF result.state = "stateInstaller"
                                  THEN (IF result.mode = "minimal" \/ result.distro = "debian"
                                          THEN "calamares" ELSE pick)
                                  ELSE @,
                  !.outputPath = IF result.state = "stateOutputPath" THEN "kagami.json" ELSE @]

\* ctrl+c or q in any state: Update returns tea.Quit before it looks at the state
keyQuit ==
  /\ result.fn = "wizard" /\ result.program = "running"
  /\ \E key \in {"ctrl+c", "q"} : result' = [result EXCEPT !.program = "quit"]

\* main after tui.Run returned: os.Exit(0) for an empty outputPath, otherwise
\* Validate, NewBuilder and the build
mainAfterWizard ==
  /\ result.fn = "wizard" /\ result.program = "quit" /\ result.main = "tui.Run"
  /\ result' = [result EXCEPT !.main = IF result.outputPath = "" THEN "exited" ELSE "Build"]

NextWizard ==
  /\ \/ keyDown
     \/ keyEnter
     \/ keyQuit
     \/ mainAfterWizard
  /\ UNCHANGED << cfg, args, answer, workDir, host, mountFaults, release, debianAlias, fetched, fsVars,
                  buildVars, mainVars, histVars >>

SpecWizard == InitWizard /\ [][NextWizard]_vars

TypeOK ==
  /\ cfg \in Configs
  /\ args.fn \in {"", "createFilesystem", "isMounted", "cleanup", "pipeline", "md5sum", "configureBootloader", "wizard"}
  /\ result.fn \in {"", "createFilesystem", "isMounted", "cleanup", "pipeline", "md5sum", "configureBootloader", "wizard"}
  /\ dirs \subseteq WorkspaceDirs
  /\ etc \in {"absent", "partial", "populated"}
  /\ initctl \in BOOLEAN
  /\ mounts \in [Targets -> 0 .. MaxDepth]
  /\ iso \in {"none", "workspace", "safe"}
  /\ bstate \in {"idle", "starting", "running", "ok", "failed", "killed"}
  /\ step \in StepIdx
  /\ pc \in {"start", "wait", "prompt", "exited"}
  /\ mode \in Modes
  /\ exitStatus \in {-1, 0, 1}
  /\ resumedOn \in {"", "starting", "running", "ok", "failed"}
  /\ runNo \in 1 .. MaxRuns

\* ------------------------------------------------------------------ claims

\* the position in the steps list of a phase function
StepOf(fn) == (CHOOSE i \in StepIdx : StepFn(i) = fn) + 1

\* C1: in every run of Build the phases execute in list order, each at most
\* once, a phase is called only after every phase before it returned success,
\* and once a phase has failed Build has returned a failure and no later phase
\* is called.
PhasesInOrder ==
  \A i \in StepIdx :
    /\ calls[i] <= 1
    /\ (calls[i] = 0) = (outcome[i] = "none")
    /\ calls[i] = 1 => \A j \in StepIdx : j < i => outcome[j] = "ok"
    /\ outcome[i] = "fail" =>
         /\ bstate = "failed"
         /\ buildErr # NoError
         /\ \A j \in StepIdx : j > i => calls[j] = 0

\* a build that fails in installPackages after six successful phases
PhaseFailedMidway ==
  /\ bstate = "failed"
  /\ lastFn = "installPackages"
  /\ outcome[6] = "fail"
  /\ calls[5] = 1

\* C2: rm -rf of the workspace runs only when none of chroot/dev/pts,
\* chroot/dev, chroot/proc, chroot/sys and chroot/run is mounted any more.
RemovedOnlyWhenUnmounted == rmCount > 0 => mountedAtRm = {}

\* C3: when the process has ended, every mount the run established has had an
\* unmount attempt and nothing is mounted under the chroot directory.
NoMountLeftAtExit ==
  pc = "exited" => (Mounted(mounts) = {} /\ unattempted = {})

\* C4: a step that removes a workspace directory or the chroot content is a
\* step of RemoveWorkspace called by main from offerCleanup, never a step of Build.
OnlyRemoveWorkspaceDeletes ==
  [][ (~(dirs \subseteq dirs') \/ (etc # "absent" /\ etc' = "absent"))
        => (pc = "prompt" /\ pc' = "exited" /\ rmCount' = rmCount + 1) ]_vars

\* Build has failed after the chroot was bootstrapped and the workspace is whole
WorkspaceKeptAfterFailure ==
  /\ bstate = "failed"
  /\ pc = "prompt"
  /\ calls[4] = 1
  /\ dirs = WorkspaceDirs
  /\ etc = "populated"

\* C5: when Build had failed by the time its caller in main went on, main
\* takes the failure branch: no success banner is printed and the process ends
\* with exit status 1, in whichever way the build was started.
FailureIsReported ==
  resumedOn = "failed" =>
    /\ ~success
    /\ ~banner
    /\ seenErr # NoError
    /\ pc = "exited" => exitStatus = 1

\* C6: the error Build returns for a failed phase carries the label of that
\* phase, of no other phase, and the error that phase returned.
ErrorNamesFailedPhase ==
  bstate = "failed" =>
    /\ phaseErr # Nil
    /\ buildErr.cause = phaseErr
    /\ buildErr.label = Steps[StepOf(lastFn)].name
    /\ \A i \in StepIdx : StepFn(i) # lastFn => buildErr.label # StepName(i)

\* Build failed in configureSystem
ConfigureFailed == bstate = "failed" /\ lastFn = "configureSystem"

\* C7 as stated: the error Build returns carries the ordinal of the failed phase.
ErrorCarriesOrdinal ==
  bstate = "failed" => ("ordinal" \in DOMAIN buildErr /\ buildErr.ordinal = step + 1)

\* C7 amended: the error Build returns consists of the label of the failed
\* phase and the cause only; the ordinal of the failed phase is the one on the
\* last progress line Build printed.
ErrorIsLabelAndCause ==
  bstate = "failed" =>
    /\ DOMAIN buildErr = {"label", "cause"}
    /\ buildErr.label = StepName(step)
    /\ buildErr.cause # Nil
    /\ printed = step + 1
    /\ StepFn(printed - 1) = lastFn

\* Build failed in its fifth phase
FifthPhaseFailed == bstate = "failed" /\ printed = 5

\* C8: in a re-run on the workspace an earlier run left, a phase that succeeded
\* in the earlier run does not fail because of what that run left on disk.
RerunNotBrokenByLeftovers ==
  (runNo > 1 /\ bstate = "failed" /\ lastFn \in prevOK) => ~stateCaused

\* C9 as stated: of two runs of the bootstrap phase on one workspace the second
\* never invokes debootstrap and returns success.
SecondBootstrapSkips ==
  \A k \in 2 .. Len(bootRuns) : ~bootRuns[k].invoked /\ bootRuns[k].ok

\* C9 amended: after a run of the bootstrap phase that returned success, a
\* later run on the same workspace does not invoke debootstrap and returns success.
BootstrapSkippedAfterSuccess ==
  \A j, k \in 1 .. Len(bootRuns) :
    (j < k /\ bootRuns[j].ok) => (~bootRuns[k].invoked /\ bootRuns[k].ok)

\* debootstrap ran and succeeded in one run, the next run skipped it
BootstrapSkippedOnRerun ==
  /\ Len(bootRuns) = 2
  /\ bootRuns[1].invoked /\ bootRuns[1].ok
  /\ ~bootRuns[2].invoked
  /\ runNo = 2
  /\ outcome[2] = "ok"

\* C10: the bootstrap phase skips debootstrap exactly when chroot/etc is the
\* populated /etc of a completed bootstrap.
BootstrapSkippedOnlyWhenComplete ==
  \A k \in 1 .. Len(bootRuns) :
    (~bootRuns[k].invoked) = (bootRuns[k].etcBefore = "populated")

\* C11: however often the mount phase has run on a workspace, chroot/dev and
\* chroot/run each carry one mount at most: a target that is in the mount table
\* is skipped.
BindMountedOnce == mounts[Dev] <= 1 /\ mounts[Run] <= 1

\* C12: a workspace directory exists only for a configuration whose distribution
\* and release name a suite debootstrap has a script for; Validate has rejected
\* every other configuration before Build ran.
OnlyBootstrapTargetsAccepted ==
  dirs # {} => BootstrapRelease(cfg.release) \in BootstrapTargets(cfg.distro)

\* C13: when a required tool is missing or the process is not root, the only
\* phase Build calls is the prerequisite check, which fails with its label; no
\* workspace directory exists, nothing is mounted and the chroot is untouched.
PrerequisiteFailureFirst ==
  (host.missing \cap RequiredTools # {} \/ host.euid # 0) =>
    /\ \A i \in StepIdx : i >= 1 => calls[i] = 0
    /\ calls[0] = 1 => (bstate = "failed" /\ outcome[0] = "fail" /\ buildErr.label = StepName(0))
    /\ dirs = {} /\ Mounted(mounts) = {} /\ etc = "absent" /\ ~initctl /\ iso = "none"

\* a process that is not root has ended after Build failed in the prerequisite check
NotRootBuildEnded ==
  /\ host.euid # 0 /\ host.missing = {}
  /\ pc = "exited" /\ bstate = "failed" /\ lastFn = "checkPrerequisites"

\* C14: when the query for the codename of a Debian alias fails, Build reports
\* no error, the release stays the alias as configured, and Build enters its
\* loop of phases.
AliasKeptWhenResolutionFails ==
  fetched = "" =>
    /\ release = cfg.release /\ debianAlias = cfg.release
    /\ bstate # "starting"
    /\ calls[0] = 0 => buildErr = NoError

\* the query failed for stable, the first phase succeeded and the second was called
UnresolvedAliasBuilt ==
  /\ fetched = "" /\ release = "stable"
  /\ outcome[0] = "ok" /\ calls[1] = 1

\* the release aliases of the specification
ReleaseAliases == {"stable", "testing", "unstable", "devel", "lts", "rolling"}

\* C15: when the operator asked for a release alias and no codename query
\* failed, the release the phases work with is a non-empty codename that is
\* neither the alias asked for nor another alias.
AliasResolvedToCodename ==
  (cfg.asked \in ReleaseAliases /\ fetched # "" /\ calls[0] = 1) =>
    (release # "" /\ release # cfg.asked /\ release \notin ReleaseAliases)

\* C16: when snapd blocking is configured, blockSnapd attempts every one of its
\* commands whichever of them fail, logs a warning for each failure, returns
\* success, and Build goes on to installPackages.
SnapdFailuresNotFatal ==
  (lastFn = "blockSnapd" /\ snapdBlockingOn(cfg)) =>
    /\ trace.ran = 1 .. NumSnapdCmds
    /\ trace.logged = trace.failed
    /\ outcome[5] = "ok" /\ buildErr = NoError
    /\ bstate \in {"running", "killed"} /\ StepFn(step) = "installPackages"

\* the write of the systemd override failed in blockSnapd
SnapdOverrideWriteFailed == lastFn = "blockSnapd" /\ trace.failed = {6}

\* C17: installPackages runs upgrade, essential packages, kernel, additional
\* packages in this order; a failure of one of the first three fails the phase
\* and the build with no later step run; a failure of the additional packages
\* is logged and the phase returns success.
PackageStepsOrdered ==
  lastFn = "installPackages" =>
    /\ \E k \in 0 .. PkgAdditional : trace.ran = 1 .. k
    /\ \A i \in trace.failed \cap {PkgUpgrade, PkgEssential, PkgKernel} :
         /\ outcome[6] = "fail" /\ buildErr.label = StepName(6)
         /\ \A j \in trace.ran : j <= i
    /\ trace.failed \cap {PkgUpgrade, PkgEssential, PkgKernel} = {} =>
         /\ outcome[6] = "ok" /\ buildErr = NoError
         /\ (PkgAdditional \in trace.ran) = cfg.additional
         /\ PkgAdditional \in trace.failed => PkgAdditional \in trace.logged

\* only the installation of the additional packages failed
AdditionalPackagesFailed ==
  lastFn = "installPackages" /\ trace.failed = {PkgAdditional} /\ outcome[6] = "ok"

\* C18: every failure of a best-effort step leaves at least one log line and
\* does not abort the run: a failed command without a log line is the one
\* whose error the phase returns.
DegradedFailuresLogged ==
  trace.failed \ trace.logged # {} =>
    /\ Cardinality(trace.failed \ trace.logged) = 1
    /\ phaseErr # Nil

\* C19: when no GRUB EFI loader is at a known path and the search finds none,
\* createISO returns the error naming grubx64.efi, xorriso is not invoked and
\* no ISO exists; whenever xorriso is invoked, grubx64.efi has been staged.
MandatoryLoaderStaged ==
  lastFn = "createISO" =>
    /\ ISOStep("find grub") \in trace.failed =>
         /\ phaseErr = "mandatory EFI loader grubx64.efi could not be located"
         /\ buildErr.label = StepName(12)
         /\ ISOStep("xorriso") \notin trace.ran
         /\ iso = "none"
    /\ ISOStep("xorriso") \in trace.ran => grubStaged(trace)

\* C20: in createISO a failure of checksum generation, of the creation of the
\* EFI FAT image or of the mastering invocation is returned as an error, and
\* Build fails at the ISO phase.
ISOSynthesisFailuresFatal ==
  lastFn = "createISO" =>
    \A n \in {"create md5sum.txt", "find | md5sum", "read md5sum.txt", "write md5sum.txt",
              "dd", "mkfs.vfat", "mmd", "mcopy", "xorriso"} :
      ISOStep(n) \in trace.failed =>
        /\ phaseErr # Nil
        /\ outcome[12] = "fail"
        /\ buildErr.label = StepName(12)

\* C21: the absence of the shim loader, of the mmx64 loader or of the hybrid
\* MBR image does not make createISO fail: xorriso is invoked, without
\* --grub2-mbr when the hybrid image is absent and without a graft entry for a
\* loader that was not staged.
OptionalComponentsNotFatal ==
  (lastFn = "createISO" /\ trace.failed \subseteq OptionalISOSteps) =>
    /\ phaseErr = Nil /\ outcome[12] = "ok"
    /\ ISOStep("xorriso") \in trace.ran
    /\ rmCount = 0 => iso # "none"
    /\ ISOStep("stat boot_hybrid") \in trace.failed => "--grub2-mbr" \notin xorrisoArgs(trace)
    /\ ISOStep("copy shim") \in trace.failed => "/EFI/boot/bootx64.efi" \notin xorrisoArgs(trace)
    /\ ISOStep("copy mm") \in trace.failed => "/EFI/boot/mmx64.efi" \notin xorrisoArgs(trace)

\* an ISO was made with none of the optional boot components
ISOWithoutOptionalComponents ==
  lastFn = "createISO" /\ trace.failed = OptionalISOSteps /\ iso = "workspace"

\* the lines of a text: the pieces between newlines, without the empty piece
\* after a final newline
TextLines(content) ==
  LET pieces == Split(content, NL)
  IN  IF pieces[Len(pieces)] = << >> THEN SubSeq(pieces, 1, Len(pieces) - 1) ELSE pieces

\* line l contains the name n
HasName(l, n) == \E i, j \in 0 .. Len(l) : SubSeq(l, i + 1, j) = n

\* C22: the stripped manifest written by createFilesystem is made of lines of
\* the full manifest in their order, none of which contains a name of the
\* exclusion list, and every line of the full manifest that contains none of
\* the names is kept.
StrippedManifestExact ==
  result.fn = "createFilesystem" =>
    LET full == TextLines(args.manifest)
        out == TextLines(result.content)
        names == { args.remove[i] : i \in DOMAIN args.remove }
    IN  /\ \A i \in DOMAIN out : \A n \in names : ~HasName(out[i], n)
        /\ out = SelectSeq(full, LAMBDA l : \A n \in names : ~HasName(l, n))

\* a manifest of three lines lost its middle line only, to the second name
MiddleLineStripped ==
  /\ result.fn = "createFilesystem"
  /\ Len(args.remove) = 2
  /\ Len(TextLines(args.manifest)) = 3
  /\ TextLines(result.content) = << TextLines(args.manifest)[1], TextLines(args.manifest)[3] >>
  /\ ~HasName(TextLines(args.manifest)[2], args.remove[1])

\* C23: for a configuration whose distribution is debian, blockSnapd executes
\* no suppression command, whatever the snapd flags are.
NoSuppressionOnDebian ==
  (cfg.distro = "debian" /\ lastFn = "blockSnapd") => trace.ran = {}

\* C24: in a build started without a configuration file, blockSnapd executes
\* the suppression commands exactly when --block-snapd is true.
BlockSnapdFlagDecides ==
  (~cfg.file /\ lastFn = "blockSnapd") => ((trace.ran # {}) = cfg.blockSnapd)

\* C25: the live directory follows the distribution in every phase: casper
\* and boot=casper for Ubuntu, live and boot=live for Debian, the same
\* directory at workspace creation, in the bootloader phase, in the
\* filesystem phase and in the boot menu.
LiveLayoutFollowsDistro ==
  outcome[9] = "ok" =>
    LET d == IF cfg.distro = "debian" THEN "live" ELSE "casper"
    IN  /\ createdLiveDir(cfg) = d
        /\ bootloaderLiveDir(cfg) = d
        /\ grubLiveDir(cfg) = d
        /\ grubBootParam(cfg) = "boot=" \o d
        /\ liveDir(cfg) = d

\* the line is the letter y or Y between blanks
ExactlyY(line) ==
  \E i \in DOMAIN line :
    /\ line[i] \in {"y", "Y"}
    /\ \A j \in DOMAIN line \ {i} : line[j] \in {" ", NL, "\t"}

\* C26: after a successful build RemoveWorkspace is called only when the
\* trimmed, lower-cased answer to the prompt is exactly y; an empty answer, the
\* end of input or any other answer leaves the workspace and its chroot.
DeletionIsOptIn ==
  (success /\ pc = "exited") =>
    /\ rmCount > 0 => ExactlyY(answer)
    /\ ~ExactlyY(answer) => (rmCount = 0 /\ (outcome[1] = "ok" => {"work", "chroot"} \subseteq dirs))
    /\ ExactlyY(answer) => rmCount = 1

\* the operator answered "yes" after a successful build and the workspace stayed
WorkspaceKeptOnYes ==
  /\ success /\ pc = "exited" /\ outcome[12] = "ok"
  /\ answer = << "y", "e", "s", NL >>
  /\ rmCount = 0 /\ "chroot" \in dirs

\* C27: after a successful build the ISO is not deleted by the workspace
\* cleanup: an ISO inside the workspace has been moved out of it before
\* RemoveWorkspace runs.
ISOSurvivesCleanup ==
  (success /\ outcome[12] = "ok" /\ rmCount > 0) => iso = "safe"

\* C28: isMounted(path) is true exactly when a line of the mount table has
\* the absolute form of path as its mount-point field: a path that is only a
\* prefix, a suffix or a part of a mounted path is not mounted, and every
\* path that is mounted is reported as mounted.
IsMountedExact ==
  result.fn = "isMounted" =>
    /\ result.value => EvalSymlinks(filepathAbs(args.path)) \in args.mounted
    /\ EvalSymlinks(filepathAbs(args.path)) \in args.mounted => result.value

\* C29: cleanup unmounts innermost first: every umount attempt for
\* chroot/dev/pts comes before any attempt for chroot/dev, and the list of
\* cleanup holds every target the mount phase and the configure phase mount.
InnermostFirst ==
  /\ []({ BindMounts[k] : k \in DOMAIN BindMounts } \cup { ChrootMounts[k] : k \in DOMAIN ChrootMounts }
          \subseteq { CleanupMounts[k] : k \in DOMAIN CleanupMounts })
  /\ [][ (result.fn = "cleanup" /\ result'.attempts[DevPts] > result.attempts[DevPts])
           => result.attempts[Dev] = 0 ]_vars

\* both chroot/dev/pts and chroot/dev were given an umount attempt
PtsAndDevAttempted ==
  result.fn = "cleanup" /\ result.attempts[DevPts] > 0 /\ result.attempts[Dev] > 0

\* C30: cleanup terminates and returns success; a mounted target gets at most
\* three umount attempts, none after one that succeeded, and after the third
\* failure the walk goes on to the next target.
CleanupBounded ==
  /\ []<>(result.fn = "cleanup" /\ result.done)
  /\ [](result.fn = "cleanup" =>
          /\ result.done => result.ret = Nil
          /\ \A t \in Targets : result.attempts[t] <= 3
          /\ \A k \in DOMAIN CleanupMounts :
               (result.attempts[CleanupMounts[k]] = 3 /\ CleanupMounts[k] \notin result.succeeded)
                 => result.i > k)
  /\ [][ \A t \in Targets :
           (result.fn = "cleanup" /\ result'.attempts[t] > result.attempts[t])
             => t \notin result.succeeded ]_vars

\* cleanup returned after three failed attempts on one target and a success
\* at the second attempt on another
ThirdFailureThenNext ==
  /\ result.fn = "cleanup" /\ result.done
  /\ result.attempts[DevPts] = 3 /\ DevPts \notin result.succeeded
  /\ result.attempts[Dev] = 2 /\ Dev \in result.succeeded

\* C31: cleanup can be called in any state and again: it attempts an umount
\* only for a target that is mounted at that moment, it returns nil, and a
\* call that starts with nothing mounted runs no umount command.
CleanupSafeAndIdempotent ==
  /\ [][ \A t \in Targets :
           (result.fn = "cleanup" /\ result'.fn = "cleanup"
              /\ result'.attempts[t] > result.attempts[t])
             => result.table[t] > 0 ]_vars
  /\ [](result.fn = "cleanup" =>
          /\ result.done => result.ret = Nil
          /\ args.table = NoMounts => \A t \in Targets : result.attempts[t] = 0)

\* a second call has returned, made after a call that started with mounts
\* and left none
SecondCleanupIdle ==
  /\ result.fn = "cleanup" /\ result.done
  /\ args.call = 2 /\ args.emptied /\ args.table = NoMounts

\* C32: when the statements of a pipeline are over and the phase goes on,
\* no process of the pipeline is alive, producer or consumer.
PipelineProcessesReaped ==
  (result.fn = "pipeline" /\ result.pc = "returned") => result.running = {}

\* a pipeline has run with both of its processes started
BothEndsStartedAndReaped ==
  /\ result.fn = "pipeline" /\ result.pc = "returned"
  /\ result.started = {"producer", "consumer"}

\* C33: when the caller of ShowBuild went on while a build phase was still
\* executing (ctrl+c in the build monitor), it prints no success banner and
\* runs neither the unmounting nor the removal of the workspace.
BuildNotAbandonedMidPhase ==
  (mode = "tui" /\ resumedOn = "running") =>
    /\ ~banner
    /\ ~success
    /\ rmCount = 0

\* C34: configureSystem issues its commands in a fixed order and stops at the
\* first failing one: the sources list and the additional repositories come
\* before the package-index refresh, the refresh before the systemd
\* installation, the machine-id and the init-system shim commands; a failure
\* of the additional repositories alone is logged and stops nothing.
ConfigureOrdered ==
  lastFn = "configureSystem" =>
    LET stopped == trace.failed \ {CmdRepos}
    IN  /\ CmdUpdate \in trace.ran =>
             ({CmdSources, CmdRepos} \subseteq trace.ran /\ CmdSources \notin trace.failed)
        /\ trace.ran \cap (CmdUpdate + 1 .. NumConfigureCmds) # {} =>
             CmdUpdate \in trace.ran \ trace.failed
        /\ \A k \in stopped :
             /\ phaseErr # Nil
             /\ \A j \in trace.ran \cap (1 .. NumConfigureCmds) : j <= k
        /\ stopped = {} => (phaseErr = Nil /\ trace.ran = 1 .. NumConfigureCmds \cup {CmdRepos})
        /\ CmdRepos \in trace.failed => (CmdRepos \in trace.logged /\ CmdUpdate \in trace.ran)

\* the additional repositories failed and the phase went on to its end
ReposFailedPhaseWentOn ==
  /\ lastFn = "configureSystem"
  /\ trace.failed = {CmdRepos}
  /\ phaseErr = Nil /\ CmdShim \in trace.ran

\* the path lies inside the isolinux staging directory
InStaging(path) == Len(path) >= 4 /\ SubSeq(path, 1, 4) = << ".", "/", "isolinux", "/" >>

\* the paths the lines of a checksum file name
ListedPaths(content) ==
  LET lines == Split(content, NL)
  IN  { SubSeq(lines[i], 4, Len(lines[i])) : i \in { j \in DOMAIN lines : lines[j] # << >> } }

\* C35: md5sum.txt lists every regular file of the image directory outside
\* the isolinux staging directory and no file inside it.
ChecksumListExact ==
  result.fn = "md5sum" =>
    ListedPaths(result.content) =
      { ImagePaths[i] : i \in { j \in args.present : ~InStaging(ImagePaths[j]) } }

\* C36: with desktop none installDesktop installs no desktop package and goes
\* to the installer setup and the remove-list purge; otherwise a failed
\* desktop package installation (or an unknown identifier) fails the phase;
\* failures of the installer packages, of the Calamares setup, of the purge
\* and of autoremove never do; the purge comes after the installer setup.
DesktopPhaseErrors ==
  lastFn = "installDesktop" =>
    /\ cfg.desktop = "none" => (trace.ran \cap {DeskLookup, DeskInstall} = {} /\ phaseErr = Nil)
    /\ (phaseErr # Nil) = (trace.failed \cap {DeskLookup, DeskInstall} # {})
    /\ phaseErr = Nil =>
         /\ DeskAutoremove \in trace.ran
         /\ cfg.remove = (DeskPurge \in trace.ran)
         /\ (cfg.installer = "ubiquity") = (DeskInstaller \in trace.ran)
         /\ (cfg.installer = "calamares") = (DeskCalamares \in trace.ran)
    /\ DeskPurge \in trace.ran =>
         \A k \in {DeskInstaller, DeskCalamares} : deskApplies(cfg, k) => k \in trace.ran
    /\ DeskPurge > DeskInstaller /\ DeskPurge > DeskCalamares

\* a desktop was installed, the Calamares setup failed, the purge ran and
\* the phase returned nil
CalamaresFailedPhaseWentOn ==
  /\ lastFn = "installDesktop" /\ cfg.desktop # "none"
  /\ trace.failed = {DeskCalamares}
  /\ DeskPurge \in trace.ran /\ phaseErr = Nil

\* C37: when configureBootloader returns nil a kernel image and an initrd
\* image have been copied into the image tree, and for the kernel and the
\* initrd alike the broad wildcard is used whenever the pattern with the
\* suffix matches nothing.
BootImagesStaged ==
  (result.fn = "configureBootloader" /\ result.err = Nil) =>
    /\ result.copied = {"vmlinuz", "initrd"}
    /\ Glob(args.boot, "vmlinuz-", args.suffix) = {} => result.kernelPattern = "broad"
    /\ Glob(args.boot, "initrd.img-", args.suffix) = {} => result.initrdPattern = "broad"

\* the line is n or N with nothing but white space around it
ExactlyN(line) ==
  \E i \in DOMAIN line :
    /\ line[i] \in {"n", "N"}
    /\ \A j \in DOMAIN line \ {i} : line[j] \in {" ", NL, "\t"}

\* C38: after a failed build offerCleanup calls RemoveWorkspace (unmount,
\* then rm -rf) unless the trimmed, lower-cased answer is exactly n: an empty
\* answer and the end of input delete the workspace; with the answer n
\* nothing is unmounted and nothing deleted.
FailedBuildCleanupOptOut ==
  [][ (pc = "prompt" /\ pc' = "exited" /\ ~success) =>
        IF ExactlyN(answer')
          THEN rmCount' = rmCount /\ mounts' = mounts /\ dirs' = dirs
               /\ unattempted' = unattempted
          ELSE rmCount' = rmCount + 1 /\ mountedAtRm' = Mounted(mounts')
               /\ unattempted' \cap { t \in Targets : isMounted(mounts, t) } = {} ]_vars

\* a build failed with mounts in place, the input ended at the prompt and
\* the workspace was removed
EndOfInputRemoves ==
  /\ pc = "exited" /\ ~success /\ outcome[3] = "ok"
  /\ answer = << >>
  /\ rmCount = 1

\* C39: a build started from the wizard runs only after the operator chose
\* Yes at the confirmation step: leaving the wizard with ctrl+c or q, in any
\* state, never makes main run Build.
BuildOnlyAfterConfirm ==
  (result.fn = "wizard" /\ result.main = "Build") => result.confirmed

====
